---- MODULE Spec2Model ----
(***************************************************************************)
(* Verification model of nktkas/keyboard-hook: the low-level keyboard hook *)
(* engine (install, message loop, hook callback, teardown), the relay of   *)
(* a hook worker to its parent, and the consumer-facing facade.            *)
(*                                                                         *)
(* The repository holds several revisions of the engine; `variant` names   *)
(* the one a behaviour runs:                                               *)
(*   "withWorker"  src/src/keyboard_hook_with_worker.ts (facade with       *)
(*                 start()/stop(), engine inlined in the worker script)    *)
(*   "direct"      src/README.md 232-352 (keyboard_hook.ts, the engine     *)
(*                 used on the consumer's own thread)                      *)
(*   "oneshot"     src/unnamed/part_000 and src/src/KeyboardHook_worker.ts *)
(*                 1-111 (the constructor spawns the worker, close())      *)
(*                                                                         *)
(* Spec runs the whole life cycle on key-down and key-up input; SpecFair   *)
(* adds the scheduling of the runtime; SpecRunning starts from an instance *)
(* whose hook is installed and hands its callback every kind of            *)
(* invocation while the consumer registers and withdraws listeners;        *)
(* SpecLoop hands the message loop every result of a retrieval; SpecTwo    *)
(* runs two instances in one process.                                      *)
(***************************************************************************)
EXTENDS Integers, Sequences, FiniteSets, TLC

\* ------------------------------------------------------------------ bounds
MaxEvents == 2
MaxWorkers == 2

\* --------------------------------------------------------- program constants
WM_KEYDOWN == 256
WM_KEYUP == 257
WM_SYSKEYDOWN == 260
WM_SYSKEYUP == 261
KeyA == 30
KeyB == 48
KeyPrintScreen == 3639

\* The instances a consumer constructs; Spec and SpecRunning drive the first,
\* SpecTwo drives both.
Instances == {"a", "b"}
Facades == {"a"}
Variants == {"withWorker", "direct", "oneshot"}
\* The revisions whose callback and relay SpecRunning exercises: those of
\* Variants, the README engine hosted by worker.ts, and the one-shot revision
\* that decodes the flags.
RunningVariants == Variants \cup {"moduleWorker", "flagsWorker"}
\* Engine kinds: "inline" (worker script of keyboard_hook_with_worker.ts),
\* "direct" (keyboard_hook.ts on the consumer's thread), "module"
\* (keyboard_hook.ts in worker.ts), "oneshot" (part_000), "flags" (the worker
\* script of KeyboardHook_worker.ts), "ctor" (KeyboardHook.ts, whose
\* constructor installs the hook).
WorkerKinds == {"inline", "module", "oneshot", "flags"}
LoopKinds == {"inline", "module", "direct"}
OneShotKinds == {"oneshot", "flags"}
EngineIds == 1..MaxWorkers
Null == [null |-> TRUE]
NoInv == [none |-> TRUE]

VARIABLES
    variant,     \* the revision of the engine this behaviour runs
    worker,      \* facade field `worker`: 0 is undefined, else a worker id
    nextId,      \* number of engine objects (workers) constructed so far
    eng,         \* engine objects and the position of their hook thread
    port,        \* per worker: messages posted to the parent, not yet dispatched
    osEvents,    \* low-level keyboard events the OS has produced, in order
    hooks,       \* OS hook registrations, by the engine whose install made them
    delivered,   \* per facade: events dispatched to subscriber listeners
    published,   \* per engine: events the hook callback dispatched
    calls,       \* per engine: the native calls and releases it has made
    noopCalls,   \* consumer calls that found the instance in the target state:
                 \* "start" while Running, "stopIdle" before any start,
                 \* "stopStopped" after a stop or a failed start
    reported,    \* per instance: the error outcomes its consumer was given
    listeners    \* per instance: the registered subscriber listeners

vars == <<variant, worker, nextId, eng, port, osEvents, hooks, delivered,
          published, calls, noopCalls, reported, listeners>>

\* Everything but the observation of which calls were no-ops.
progVars == <<variant, worker, nextId, eng, port, osEvents, hooks, delivered,
              published, calls, reported, listeners>>

\* ------------------------------------------------------------- environment
\* The bits of the `flags` field the flag-decoding revision tests.
FlagMask ==
    [extended |-> 1, lowerIlInjected |-> 2, injected |-> 16, altDown |-> 32, up |-> 128]

\* Hook-chain invocations the OS makes: (nCode, wParam, lParam); lParam points
\* at a KBDLLHOOKSTRUCT (virtual key `vk`, scan code `sc`, `flags`, extra
\* information `extra`) whose `time` field is stamped when the event is
\* queued. `rec` tells whether lParam points at a record or is null.
RawInput(nCode, wParam, vk, sc, flags, extra, rec) ==
    [nCode |-> nCode, wParam |-> wParam, vk |-> vk, sc |-> sc, flags |-> flags,
     extra |-> extra, rec |-> rec]

RawInputs ==
    { RawInput(0, WM_KEYDOWN, KeyA, KeyB, 0, 0, TRUE),
      RawInput(0, WM_KEYUP, KeyA, KeyB, FlagMask.up, 0, TRUE),
      RawInput(-1, WM_KEYDOWN, KeyA, KeyB, 0, 0, TRUE) }

\* A message identifier that is none of the four keyboard messages.
UnmappedMessage == WM_KEYUP + 1

\* The invocations a hook procedure can be handed by the hook chain: the
\* four keyboard messages and one that is none of them, a second key, a key
\* whose code takes two bytes, an injected event that carries extra
\* information, a negative and a positive hook-chain code, and a null
\* record pointer.
HookInputs ==
    RawInputs \cup
    { RawInput(0, WM_SYSKEYDOWN, KeyA, KeyB, FlagMask.altDown, 0, TRUE),
      RawInput(0, WM_SYSKEYUP, KeyA, KeyB, FlagMask.altDown + FlagMask.up, 0, TRUE),
      RawInput(0, UnmappedMessage, KeyA, KeyB, 0, 0, TRUE),
      RawInput(0, WM_KEYDOWN, KeyB, KeyA, 0, 0, TRUE),
      RawInput(0, WM_KEYDOWN, KeyPrintScreen, KeyPrintScreen, FlagMask.extended, 0, TRUE),
      RawInput(0, WM_KEYDOWN, KeyA, KeyB,
               FlagMask.injected + FlagMask.lowerIlInjected, 1, TRUE),
      RawInput(1, WM_KEYDOWN, KeyA, KeyB, 0, 0, TRUE),
      RawInput(0, WM_KEYDOWN, KeyA, KeyB, 0, 0, FALSE) }

\* The field values of the KBDLLHOOKSTRUCT the OS fills in for an event.
Struct(raw, t) ==
    [vkCode |-> raw.vk, scanCode |-> raw.sc, flags |-> raw.flags, time |-> t,
     extraInfo |-> raw.extra]

\* The bytes of an unsigned value of n bytes as memory holds them on the
\* platform of user32.dll: least significant byte first.
RECURSIVE LittleEndian(_, _)
LittleEndian(value, n) ==
    IF n = 0 THEN <<>> ELSE <<value % 256>> \o LittleEndian(value \div 256, n - 1)

\* The 24 bytes of a KBDLLHOOKSTRUCT: four DWORDs and a pointer-sized value.
StructBytes(r) ==
    LittleEndian(r.vkCode, 4) \o LittleEndian(r.scanCode, 4) \o LittleEndian(r.flags, 4)
        \o LittleEndian(r.time, 4) \o LittleEndian(r.extraInfo, 8)

\* One invocation: `struct` is what the OS recorded, lParam the memory the
\* hook procedure is pointed at.
Stamp(raw, t) ==
    [nCode |-> raw.nCode, wParam |-> raw.wParam,
     struct |-> IF raw.rec THEN Struct(raw, t) ELSE Null,
     lParam |-> IF raw.rec THEN StructBytes(Struct(raw, t)) ELSE Null]

\* The rest of the hook chain: the value CallNextHookEx hands back.
NextHook(nCode, wParam, lParam) ==
    IF nCode < 0 THEN 1 ELSE IF wParam = WM_KEYUP THEN 2 ELSE 0

\* ------------------------------------------------------------ engine object
NoEngine ==
    [kind |-> "none", owner |-> "none", pc |-> "none", running |-> FALSE,
     hookHandle |-> 0, callback |-> "none", user32 |-> "none", quit |-> FALSE,
     cur |-> NoInv, cursor |-> 0, last |-> NoInv]

\* new KeyboardHook(): dlopen of user32.dll, no hook, not running.
NewEngine(kind, f, pc) ==
    [NoEngine EXCEPT !.kind = kind, !.owner = f, !.pc = pc, !.user32 = "open"]

\* A native call or release: the function, the code region that made it
\* ("start", "callback": nested in a hook callback invocation, "top": a
\* consumer call outside both), the state of the user32 handle it went
\* through, and for UnhookWindowsHookEx the state of the handle passed.
Call(fn, ctx, lib, arg) == [fn |-> fn, ctx |-> ctx, lib |-> lib, arg |-> arg]

\* #getEventName: the event kind of a message identifier.
GetEventName(message) ==
    CASE message = WM_KEYDOWN -> "keydown"
      [] message = WM_KEYUP -> "keyup"
      [] message = WM_SYSKEYDOWN -> "syskeydown"
      [] message = WM_SYSKEYUP -> "syskeyup"
      [] OTHER -> "key"

\* A map that files the system key-down under the plain key-down.
EventNameMapSysAsPlain(message) ==
    CASE message = WM_KEYDOWN -> "keydown"
      [] message = WM_KEYUP -> "keyup"
      [] message = WM_SYSKEYDOWN -> "keydown"
      [] message = WM_SYSKEYUP -> "syskeyup"
      [] OTHER -> "undefined"

\* eventNameMap.get(wParam): undefined for an identifier that is not mapped.
EventNameMap(message) ==
    CASE message = WM_KEYDOWN -> "keydown"
      [] message = WM_KEYUP -> "keyup"
      [] message = WM_SYSKEYDOWN -> "syskeydown"
      [] message = WM_SYSKEYUP -> "syskeyup"
      [] OTHER -> "undefined"

\* getEventName of keyboard_hook.ts with a default case that answers 'key'.
GetEventNameDirectWithDefault(message) ==
    CASE message = WM_KEYDOWN -> "keydown"
      [] message = WM_KEYUP -> "keyup"
      [] message = WM_SYSKEYDOWN -> "syskeydown"
      [] message = WM_SYSKEYUP -> "syskeyup"
      [] OTHER -> "key"

\* getEventName of keyboard_hook.ts: a switch with no default.
GetEventNameDirect(message) ==
    CASE message = WM_KEYDOWN -> "keydown"
      [] message = WM_KEYUP -> "keyup"
      [] message = WM_SYSKEYDOWN -> "syskeydown"
      [] message = WM_SYSKEYUP -> "syskeyup"
      [] OTHER -> "undefined"

\* Deno.UnsafePointerView: the unsigned value of the n bytes at `offset`,
\* read in the byte order of the platform.
RECURSIVE ReadUnsigned(_, _, _)
ReadUnsigned(view, offset, n) ==
    IF n = 0 THEN 0 ELSE view[offset + 1] + 256 * ReadUnsigned(view, offset + 1, n - 1)

GetUint32(view, offset) == ReadUnsigned(view, offset, 4)

GetBigUint64(view, offset) == ReadUnsigned(view, offset, 8)

\* #parseKeyEvent: the KeyEvent read from the record lParam points at.
ParseKeyEvent(wParam, lParam) ==
    [vkCode |-> GetUint32(lParam, 0), scanCode |-> GetUint32(lParam, 4),
     flags |-> GetUint32(lParam, 8), time |-> GetUint32(lParam, 12),
     extraInfo |-> GetBigUint64(lParam, 16), message |-> wParam]

\* parseKeyEvent of keyboard_hook.ts: no message field.
ParseKeyEventDirect(lParam) ==
    [vkCode |-> GetUint32(lParam, 0), scanCode |-> GetUint32(lParam, 4),
     flags |-> GetUint32(lParam, 8), time |-> GetUint32(lParam, 12),
     extraInfo |-> GetBigUint64(lParam, 16)]

\* The detail object the one-shot revisions build in the callback.
DetailOneShot(lParam) ==
    [vkCode |-> GetUint32(lParam, 0), scanCode |-> GetUint32(lParam, 4),
     flags |-> GetUint32(lParam, 8), time |-> GetUint32(lParam, 12)]

\* The bit of `flags` a mask selects: (flags & mask) !== 0.
BitTest(flags, mask) == (flags \div mask) % 2 = 1

\* A flags object whose injected and altDown tests have changed places.
DecodeFlagsSwapped(flags) ==
    [extended |-> BitTest(flags, FlagMask.extended),
     lowerIlInjected |-> BitTest(flags, FlagMask.lowerIlInjected),
     injected |-> BitTest(flags, FlagMask.altDown),
     altDown |-> BitTest(flags, FlagMask.injected),
     up |-> BitTest(flags, FlagMask.up)]

\* The flags object of the revision that decodes the flags in the callback.
DecodeFlags(flags) ==
    [extended |-> BitTest(flags, FlagMask.extended),
     lowerIlInjected |-> BitTest(flags, FlagMask.lowerIlInjected),
     injected |-> BitTest(flags, FlagMask.injected),
     altDown |-> BitTest(flags, FlagMask.altDown),
     up |-> BitTest(flags, FlagMask.up)]

\* The detail object that revision builds in the callback.
DetailFlags(lParam) ==
    LET flags == GetUint32(lParam, 8)
    IN [vkCode |-> GetUint32(lParam, 0), scanCode |-> GetUint32(lParam, 4),
        flags |-> DecodeFlags(flags), time |-> GetUint32(lParam, 12)]

\* KeyboardEventNameMap[wParam] of that revision.
KeyboardEventNameMap(message) ==
    CASE message = WM_KEYDOWN -> "keydown"
      [] message = WM_KEYUP -> "keyup"
      [] message = WM_SYSKEYDOWN -> "syskeydown"
      [] message = WM_SYSKEYUP -> "syskeyup"
      [] OTHER -> "undefined"

\* What one callback invocation dispatches: a message, or NoInv for nothing.
Decoded(kind, inv) ==
    CASE kind = "inline" ->
           IF inv.nCode = 0 /\ inv.lParam # Null
           THEN LET keyEvent == ParseKeyEvent(inv.wParam, inv.lParam)
                IN [type |-> GetEventName(keyEvent.message), detail |-> keyEvent]
           ELSE NoInv
      [] kind \in {"direct", "module"} ->
           IF inv.nCode = 0 /\ inv.lParam # Null /\ GetEventNameDirect(inv.wParam) # "undefined"
           THEN [type |-> GetEventNameDirect(inv.wParam),
                 detail |-> ParseKeyEventDirect(inv.lParam)]
           ELSE NoInv
      [] kind = "flags" ->
           IF inv.nCode >= 0 /\ inv.lParam # Null
                  /\ KeyboardEventNameMap(inv.wParam) # "undefined"
           THEN [type |-> KeyboardEventNameMap(inv.wParam),
                 detail |-> DetailFlags(inv.lParam)]
           ELSE NoInv
      [] OTHER ->
           IF inv.nCode >= 0 /\ inv.lParam # Null /\ EventNameMap(inv.wParam) # "undefined"
           THEN [type |-> EventNameMap(inv.wParam), detail |-> DetailOneShot(inv.lParam)]
           ELSE NoInv

\* -------------------------------------------------------------- listeners
\* A subscriber listener: the kind it was registered for and its callback.
Listener(kind, cb) == [kind |-> kind, cb |-> cb]

\* The registrations of the usage example, made before start().
UsageListeners ==
    {Listener(k, "log") : k \in {"keydown", "keyup", "syskeydown", "syskeyup"}}

\* Registrations the consumer makes or withdraws later on.
LateListeners == {Listener("keydown", "late"), Listener("key", "late")}

\* A dispatch that goes by the listeners registered when start() was called.
InvokedAtStart(f, type) == {l \in UsageListeners : l.kind = type}

\* dispatchEvent(new CustomEvent(type, ...)): the listeners it invokes are
\* those registered for `type` at the time of the call.
Invoked(f, type) == {l \in listeners[f] : l.kind = type}

\* One dispatch to subscriber listeners: the event, the worker it came
\* from, the listeners invoked, and whether it ran on the consumer's event
\* loop ("consumer") or nested in a hook callback invocation ("callback").
Dispatch(f, type, detail, from, ctx) ==
    [type |-> type, detail |-> detail, from |-> from,
     to |-> Invoked(f, type), ctx |-> ctx]

\* ---------------------------------------------------------------- initial
\* "withWorker": a facade, no worker yet. "direct": an engine object on the
\* consumer's thread, start() not called. "oneshot": the facade's constructor
\* has created the worker, whose script has not run yet. In each the
\* consumer has registered the listeners of the usage example.
InitEngines(v) ==
    CASE v = "withWorker" -> [e \in EngineIds |-> NoEngine]
      [] v = "direct" ->
           [e \in EngineIds |-> IF e = 1 THEN NewEngine("direct", "a", "idle") ELSE NoEngine]
      [] OTHER ->
           [e \in EngineIds |-> IF e = 1 THEN NewEngine("oneshot", "a", "boot") ELSE NoEngine]

Init ==
    /\ variant \in Variants
    /\ worker = [f \in Instances |-> IF variant = "oneshot" /\ f \in Facades THEN 1 ELSE 0]
    /\ nextId = IF variant = "withWorker" THEN 0 ELSE 1
    /\ eng = InitEngines(variant)
    /\ port = [e \in EngineIds |-> <<>>]
    /\ osEvents = <<>>
    /\ hooks = [e \in EngineIds |-> "none"]
    /\ delivered = [f \in Instances |-> <<>>]
    /\ published = [e \in EngineIds |-> <<>>]
    /\ calls = [e \in EngineIds |-> {}]
    /\ noopCalls = {}
    /\ reported = [f \in Instances |-> {}]
    /\ listeners = [f \in Instances |-> UsageListeners]

\* ------------------------------------------------------------- OS actions
\* The OS queues a low-level keyboard event for the hook chain.
Inject(raw) ==
    /\ Len(osEvents) < MaxEvents
    /\ osEvents' = Append(osEvents, Stamp(raw, Len(osEvents) + 1))
    /\ UNCHANGED <<variant, worker, nextId, eng, port, hooks, delivered,
                   published, calls, noopCalls,
                   reported, listeners>>

\* A fault in native code ends the whole process.
Crashed == \E e \in EngineIds : eng[e].pc = "crashed"

\* ---------------------------------------------------- worker-based facade
\* Worker.terminate(): the worker stops where it is and its memory is gone;
\* messages it posted and the parent has not dispatched are discarded. No
\* code of the worker runs, so its hook is not unhooked: it is left to the
\* OS with the dying thread ("abandoned").
TerminatedEngine(r) ==
    IF r.pc \in {"none", "terminated"} THEN r
    ELSE [NoEngine EXCEPT !.kind = r.kind, !.owner = r.owner, !.pc = "terminated"]

HooksAfterTerminate(e) ==
    IF hooks[e] = "installed" THEN [hooks EXCEPT ![e] = "abandoned"] ELSE hooks

\* start() without its `if (this.worker) return` guard.
FacadeStartNoGuard(f) ==
    /\ variant = "withWorker"
    /\ nextId < MaxWorkers
    /\ nextId' = nextId + 1
    /\ worker' = [worker EXCEPT ![f] = nextId + 1]
    /\ eng' = [eng EXCEPT ![nextId + 1] = NewEngine("inline", f, "boot")]
    /\ UNCHANGED <<variant, port, osEvents, hooks, delivered,
                   published, calls, noopCalls,
                   reported, listeners>>

\* start() that installs the hook and retrieves messages itself, on the
\* consumer's thread, instead of leaving that to the worker.
FacadeStartInline(f) ==
    /\ variant = "withWorker"
    /\ worker[f] = 0
    /\ nextId < MaxWorkers
    /\ nextId' = nextId + 1
    /\ worker' = [worker EXCEPT ![f] = nextId + 1]
    /\ eng' = [eng EXCEPT ![nextId + 1] =
                  [NewEngine("inline", f, "getmsg") EXCEPT
                      !.running = TRUE, !.callback = "open", !.hookHandle = nextId + 1,
                      !.cursor = Len(osEvents)]]
    /\ hooks' = [hooks EXCEPT ![nextId + 1] = "installed"]
    /\ calls' = [calls EXCEPT ![nextId + 1] = @ \cup
          {Call("SetWindowsHookExW", "start", "open", "ok"),
           Call("GetMessageW", "start", "open", "installed")}]
    /\ UNCHANGED <<variant, port, osEvents, delivered, published, noopCalls,
                   reported, listeners>>

\* KeyboardHook.start() of the facade.
FacadeStart(f) ==
    /\ variant = "withWorker"
    /\ IF worker[f] # 0
       THEN /\ noopCalls' = noopCalls \cup {"start"}
            /\ UNCHANGED progVars
       ELSE /\ nextId < MaxWorkers
            /\ nextId' = nextId + 1
            /\ worker' = [worker EXCEPT ![f] = nextId + 1]
            /\ eng' = [eng EXCEPT ![nextId + 1] = NewEngine("inline", f, "boot")]
            /\ UNCHANGED <<variant, port, osEvents, hooks, delivered,
                           published, calls, noopCalls,
                   reported, listeners>>

\* stop() that drops its reference to the worker without terminating it.
FacadeStopNoTerminate(f) ==
    /\ variant = "withWorker"
    /\ IF worker[f] # 0
       THEN /\ worker' = [worker EXCEPT ![f] = 0]
            /\ UNCHANGED <<variant, nextId, eng, port, osEvents, hooks, delivered,
                           published, calls, noopCalls,
                   reported, listeners>>
       ELSE /\ noopCalls' = noopCalls \cup {IF nextId = 0 THEN "stopIdle" ELSE "stopStopped"}
            /\ UNCHANGED progVars

\* stop() of a facade whose worker is kept in a variable of the module,
\* shared by all instances: it terminates every hook worker there is.
FacadeStopAll(f) ==
    /\ variant = "withWorker"
    /\ IF worker[f] # 0
       THEN /\ eng' = [e \in EngineIds |-> TerminatedEngine(eng[e])]
            /\ port' = [e \in EngineIds |-> <<>>]
            /\ hooks' = [e \in EngineIds |->
                           IF hooks[e] = "installed" THEN "abandoned" ELSE hooks[e]]
            /\ worker' = [g \in Instances |-> 0]
            /\ UNCHANGED <<variant, nextId, osEvents, delivered, published,
                           calls, noopCalls, reported, listeners>>
       ELSE /\ noopCalls' = noopCalls \cup {IF nextId = 0 THEN "stopIdle" ELSE "stopStopped"}
            /\ UNCHANGED progVars

\* stop() that asks the worker to run the stop() of its engine and lets the
\* message loop end by itself instead of terminating the worker.
FacadeStopAsksWorker(f) ==
    /\ variant = "withWorker"
    /\ IF worker[f] # 0
       THEN /\ eng' = [eng EXCEPT ![worker[f]].running = FALSE, ![worker[f]].quit = TRUE]
            /\ worker' = [worker EXCEPT ![f] = 0]
            /\ UNCHANGED <<variant, nextId, port, osEvents, hooks, delivered, published,
                           calls, noopCalls, reported, listeners>>
       ELSE /\ noopCalls' = noopCalls \cup {IF nextId = 0 THEN "stopIdle" ELSE "stopStopped"}
            /\ UNCHANGED progVars

\* stop() that clears the worker field at once but leaves a worker with
\* posted messages alive until the parent has dispatched them.
FacadeStopDrainsFirst(f) ==
    /\ variant = "withWorker"
    /\ IF worker[f] # 0
       THEN /\ IF port[worker[f]] = <<>>
               THEN /\ eng' = [eng EXCEPT ![worker[f]] = TerminatedEngine(@)]
                    /\ hooks' = HooksAfterTerminate(worker[f])
               ELSE UNCHANGED <<eng, hooks>>
            /\ worker' = [worker EXCEPT ![f] = 0]
            /\ UNCHANGED <<variant, nextId, port, osEvents, delivered, published,
                           calls, noopCalls, reported, listeners>>
       ELSE /\ noopCalls' = noopCalls \cup {IF nextId = 0 THEN "stopIdle" ELSE "stopStopped"}
            /\ UNCHANGED progVars

\* KeyboardHook.stop() of the facade.
FacadeStop(f) ==
    /\ variant = "withWorker"
    /\ IF worker[f] # 0
       THEN /\ eng' = [eng EXCEPT ![worker[f]] = TerminatedEngine(@)]
            /\ port' = [port EXCEPT ![worker[f]] = <<>>]
            /\ hooks' = HooksAfterTerminate(worker[f])
            /\ worker' = [worker EXCEPT ![f] = 0]
            /\ UNCHANGED <<variant, nextId, osEvents, delivered, published,
                           calls, noopCalls,
                   reported, listeners>>
       ELSE /\ noopCalls' = noopCalls \cup {IF nextId = 0 THEN "stopIdle" ELSE "stopStopped"}
            /\ UNCHANGED progVars

\* KeyboardHook.close() of the one-shot facade: terminate, unguarded.
FacadeClose(f) ==
    /\ variant = "oneshot"
    /\ ~Crashed
    /\ eng' = [eng EXCEPT ![worker[f]] = TerminatedEngine(@)]
    /\ port' = [port EXCEPT ![worker[f]] = <<>>]
    /\ hooks' = HooksAfterTerminate(worker[f])
    /\ UNCHANGED <<variant, worker, nextId, osEvents, delivered, published,
                   calls, noopCalls,
                   reported, listeners>>

\* onmessage that hands the listeners the newest message instead of the oldest.
OnMessageNewestFirst(e) ==
    /\ ~Crashed
    /\ eng[e].pc \notin {"none", "terminated"}
    /\ eng[e].kind \in WorkerKinds
    /\ port[e] # <<>>
    /\ delivered' = [delivered EXCEPT ![eng[e].owner] =
                        Append(@, Dispatch(eng[e].owner, port[e][Len(port[e])].type,
                                           port[e][Len(port[e])].detail, e, "consumer"))]
    /\ port' = [port EXCEPT ![e] = SubSeq(@, 1, Len(@) - 1)]
    /\ UNCHANGED <<variant, worker, nextId, eng, osEvents, hooks, published,
                   calls, noopCalls,
                   reported, listeners>>

\* onmessage that runs every registered listener, whatever its kind.
OnMessageAllListeners(e) ==
    /\ ~Crashed
    /\ eng[e].pc \notin {"none", "terminated"}
    /\ eng[e].kind \in WorkerKinds
    /\ port[e] # <<>>
    /\ delivered' = [delivered EXCEPT ![eng[e].owner] =
                        Append(@, [type |-> Head(port[e]).type,
                                   detail |-> Head(port[e]).detail,
                                   from |-> e, to |-> listeners[eng[e].owner],
                                   ctx |-> "consumer"])]
    /\ port' = [port EXCEPT ![e] = Tail(@)]
    /\ UNCHANGED <<variant, worker, nextId, eng, osEvents, hooks, published,
                   calls, noopCalls, reported, listeners>>

\* onmessage of facades that share one event target: the message of worker e
\* is dispatched to the listeners of every instance.
OnMessageSharedTarget(e) ==
    /\ ~Crashed
    /\ eng[e].pc \notin {"none", "terminated"}
    /\ eng[e].kind \in WorkerKinds
    /\ port[e] # <<>>
    /\ delivered' = [f \in Instances |->
                        Append(delivered[f], Dispatch(f, Head(port[e]).type,
                                                      Head(port[e]).detail, e, "consumer"))]
    /\ port' = [port EXCEPT ![e] = Tail(@)]
    /\ UNCHANGED <<variant, worker, nextId, eng, osEvents, hooks, published,
                   calls, noopCalls, reported, listeners>>

\* worker.onmessage: the parent dispatches the oldest message of worker e
\* to the subscriber listeners of the facade that created it.
OnMessage(e) ==
    /\ ~Crashed
    /\ eng[e].pc \notin {"none", "terminated"}
    /\ eng[e].kind \in WorkerKinds
    /\ port[e] # <<>>
    /\ delivered' = [delivered EXCEPT ![eng[e].owner] =
                        Append(@, Dispatch(eng[e].owner, Head(port[e]).type,
                                           Head(port[e]).detail, e, "consumer"))]
    /\ port' = [port EXCEPT ![e] = Tail(@)]
    /\ UNCHANGED <<variant, worker, nextId, eng, osEvents, hooks, published,
                   calls, noopCalls,
                   reported, listeners>>

\* ------------------------------------------------------------- hook thread
\* Outcomes of a native call made through the user32 handle: through a
\* closed handle the call is undefined, it may work as before or fault.
CallOutcomes(lib) == IF lib = "closed" THEN {"ok", "crash"} ELSE {"ok"}

\* The worker script of keyboard_hook_with_worker.ts: construct the engine,
\* register the relay listeners, then hook.start() up to the first blocking
\* GetMessageW, or to the throw when the install is refused.
WorkerRun(e) ==
    /\ eng[e].pc = "boot"
    /\ eng[e].kind = "inline"
    /\ \E ok \in BOOLEAN :
         IF ok
         THEN /\ eng' = [eng EXCEPT ![e].running = TRUE, ![e].callback = "open",
                                    ![e].hookHandle = e, ![e].pc = "getmsg",
                                    ![e].cursor = Len(osEvents)]
              /\ hooks' = [hooks EXCEPT ![e] = "installed"]
              /\ calls' = [calls EXCEPT ![e] = @ \cup
                    {Call("SetWindowsHookExW", "start", "open", "ok"),
                     Call("GetMessageW", "start", "open", "installed")}]
         ELSE /\ eng' = [eng EXCEPT ![e].running = FALSE, ![e].callback = "closed",
                                    ![e].hookHandle = 0, ![e].pc = "threw"]
              /\ hooks' = hooks
              /\ calls' = [calls EXCEPT ![e] = @ \cup
                    {Call("SetWindowsHookExW", "start", "open", "null"),
                     Call("callback.close", "start", "open", "-")}]
    /\ UNCHANGED <<variant, worker, nextId, port, osEvents, delivered,
                   published, noopCalls,
                   reported, listeners>>

\* The worker script of the one-shot revisions: install, and on a refused
\* install callback.close(), user32.close() and self.close(), which only
\* marks the worker as closing; then GetMessageW is called in either case.
OneShotRun(e) ==
    /\ eng[e].pc = "boot"
    /\ eng[e].kind = "oneshot"
    /\ \E ok \in BOOLEAN :
         IF ok
         THEN /\ eng' = [eng EXCEPT ![e].callback = "open", ![e].pc = "getmsg",
                                    ![e].cursor = Len(osEvents)]
              /\ hooks' = [hooks EXCEPT ![e] = "installed"]
              /\ calls' = [calls EXCEPT ![e] = @ \cup
                    {Call("SetWindowsHookExW", "start", "open", "ok"),
                     Call("GetMessageW", "start", "open", "installed")}]
         ELSE /\ \E out \in CallOutcomes("closed") :
                   eng' = [eng EXCEPT ![e].callback = "closed", ![e].user32 = "closed",
                                      ![e].pc = IF out = "ok" THEN "getmsg" ELSE "crashed"]
              /\ hooks' = hooks
              /\ calls' = [calls EXCEPT ![e] = @ \cup
                    {Call("SetWindowsHookExW", "start", "open", "null"),
                     Call("callback.close", "start", "open", "-"),
                     Call("user32.close", "start", "open", "-"),
                     Call("GetMessageW", "start", "closed", "refused")}]
    /\ UNCHANGED <<variant, worker, nextId, port, osEvents, delivered,
                   published, noopCalls,
                   reported, listeners>>

\* A worker script without the relay listener of the catch-all kind.
RelayTypesNoKey(kind) == {"keydown", "keyup", "syskeydown", "syskeyup"}

\* The kinds for which the worker script registers a relay listener.
RelayTypes(kind) ==
    IF kind \in {"inline", "module"}
    THEN {"keydown", "keyup", "syskeydown", "syskeyup", "key"}
    ELSE {"keydown", "keyup", "syskeydown", "syskeyup"}

\* A callback whose publish waits until the parent has taken the last event.
HookEnterWaitsForConsumer(e) ==
    /\ eng[e].pc = "getmsg"
    /\ eng[e].kind \in WorkerKinds
    /\ hooks[e] = "installed"
    /\ eng[e].cursor < Len(osEvents)
    /\ port[e] = <<>>
    /\ LET inv == osEvents[eng[e].cursor + 1]
           msg == Decoded(eng[e].kind, inv)
       IN /\ eng' = [eng EXCEPT ![e].pc = "cb_fwd", ![e].cursor = @ + 1, ![e].cur = inv]
          /\ IF msg # NoInv
             THEN /\ published' = [published EXCEPT ![e] = Append(@, msg)]
                  /\ port' = [port EXCEPT ![e] =
                        IF msg.type \in RelayTypes(eng[e].kind) THEN Append(@, msg) ELSE @]
             ELSE UNCHANGED <<published, port>>
    /\ UNCHANGED <<variant, worker, nextId, osEvents, hooks, delivered,
                   calls, noopCalls, reported, listeners>>

\* The OS invokes the hook callback of a worker's engine on the hook thread,
\* inside GetMessageW: the callback decodes, classifies and dispatches the
\* event to the relay listener of its kind, which posts it to the parent.
HookEnter(e) ==
    /\ eng[e].pc = "getmsg"
    /\ eng[e].kind \in WorkerKinds
    /\ hooks[e] = "installed"
    /\ eng[e].cursor < Len(osEvents)
    /\ LET inv == osEvents[eng[e].cursor + 1]
           msg == Decoded(eng[e].kind, inv)
       IN /\ eng' = [eng EXCEPT ![e].pc = "cb_fwd", ![e].cursor = @ + 1, ![e].cur = inv]
          /\ IF msg # NoInv
             THEN /\ published' = [published EXCEPT ![e] = Append(@, msg)]
                  /\ port' = [port EXCEPT ![e] =
                        IF msg.type \in RelayTypes(eng[e].kind) THEN Append(@, msg) ELSE @]
             ELSE UNCHANGED <<published, port>>
    /\ UNCHANGED <<variant, worker, nextId, osEvents, hooks, delivered,
                   calls, noopCalls,
                   reported, listeners>>

\* A callback that forwards only the invocations it processed.
ForwardedOnlyWhenProcessed(inv) ==
    IF inv.nCode = 0
    THEN [inv |-> inv, fwd |-> inv, n |-> 1,
          res |-> NextHook(inv.nCode, inv.wParam, inv.lParam),
          ret |-> NextHook(inv.nCode, inv.wParam, inv.lParam)]
    ELSE [inv |-> inv, fwd |-> NoInv, n |-> 0, res |-> 0, ret |-> 0]

\* What the tail of the callback leaves behind for one invocation: the
\* arguments CallNextHookEx got, how often it was called, its result and
\* the value the callback returned.
Forwarded(inv) ==
    [inv |-> inv, fwd |-> inv, n |-> 1,
     res |-> NextHook(inv.nCode, inv.wParam, inv.lParam),
     ret |-> NextHook(inv.nCode, inv.wParam, inv.lParam)]

\* return CallNextHookEx(null, nCode, wParam, lParam)
HookForward(e) ==
    /\ eng[e].pc = "cb_fwd"
    /\ \E out \in CallOutcomes(eng[e].user32) :
         IF out = "ok"
         THEN eng' = [eng EXCEPT ![e].pc = "getmsg", ![e].cur = NoInv,
                                 ![e].last = Forwarded(eng[e].cur)]
         ELSE eng' = [eng EXCEPT ![e].pc = "crashed"]
    /\ calls' = [calls EXCEPT ![e] = @ \cup
          {Call("CallNextHookEx", "callback", eng[e].user32, "-")}]
    /\ UNCHANGED <<variant, worker, nextId, port, osEvents, hooks, delivered,
                   published, noopCalls,
                   reported, listeners>>

\* What GetMessageW returns: nonzero for a message retrieved, zero for the
\* quit message, -1 for a retrieval that failed.
GetMessageResults == {1, 0, -1}

\* What it returns when nothing but the messages the engine posts itself
\* reaches the hook thread.
OwnMessage(e) == IF eng[e].quit THEN 0 ELSE 1

\* The next GetMessageW call of the loop; the one that follows a quit message
\* or a failed retrieval is told apart.
LoopCall(lib, res) ==
    Call("GetMessageW", "start", lib, IF res > 0 THEN "installed" ELSE "retry")

\* A loop that goes on only after a message was retrieved:
\* while (running && GetMessageW(...) > 0).
GetMessageReturnChecksResult(e, res) ==
    /\ eng[e].pc = "getmsg"
    /\ eng[e].kind \in LoopKinds
    /\ IF eng[e].running /\ res > 0
       THEN /\ eng' = [eng EXCEPT ![e].quit = FALSE]
            /\ calls' = [calls EXCEPT ![e] = @ \cup {LoopCall(eng[e].user32, res)}]
       ELSE /\ eng' = [eng EXCEPT ![e].quit = FALSE, ![e].pc = "returned"]
            /\ calls' = calls
    /\ UNCHANGED <<variant, worker, nextId, port, osEvents, hooks, delivered,
                   published, noopCalls, reported, listeners>>

\* GetMessageW returns `res` in an engine with the while (running) loop: a
\* posted message was retrieved (the quit message included) or the retrieval
\* failed; the result is dropped, the loop tests running and either calls
\* GetMessageW again or start() returns.
GetMessageReturn(e, res) ==
    /\ eng[e].pc = "getmsg"
    /\ eng[e].kind \in LoopKinds
    /\ IF eng[e].running
       THEN /\ eng' = [eng EXCEPT ![e].quit = FALSE]
            /\ calls' = [calls EXCEPT ![e] = @ \cup {LoopCall(eng[e].user32, res)}]
       ELSE /\ eng' = [eng EXCEPT ![e].quit = FALSE, ![e].pc = "returned"]
            /\ calls' = calls
    /\ UNCHANGED <<variant, worker, nextId, port, osEvents, hooks, delivered,
                   published, noopCalls,
                   reported, listeners>>

\* GetMessageW returns in a one-shot engine: start() returns, the worker
\* script is over and nothing retrieves messages on this thread any more.
OneShotReturn(e) ==
    /\ eng[e].pc = "getmsg"
    /\ eng[e].kind \in OneShotKinds
    /\ eng' = [eng EXCEPT ![e].pc = "returned"]
    /\ UNCHANGED <<variant, worker, nextId, port, osEvents, hooks, delivered,
                   published, calls, noopCalls,
                   reported, listeners>>

\* --------------------------------------------- engine on the consumer thread
\* stop() that leaves the hookHandle field as it was.
StoppedEngineKeepsHandle(r) ==
    [r EXCEPT !.running = FALSE, !.quit = TRUE, !.callback = "none", !.user32 = "closed"]

\* stop() of the engine, past its guard: running cleared, PostQuitMessage,
\* UnhookWindowsHookEx when a handle is set, callback.close() when a callback
\* is set, user32.close(). All in one synchronous run of the calling code.
StoppedEngine(r) ==
    [r EXCEPT !.running = FALSE, !.quit = TRUE, !.hookHandle = 0,
              !.callback = "none", !.user32 = "closed"]

\* `hk` is the state of the hook registrations when stop() is called;
\* UnhookWindowsHookEx fails unless the registration it is given is installed.
StopCalls(e, r, ctx, hk) ==
    {Call("PostQuitMessage", ctx, r.user32, "-"), Call("user32.close", ctx, r.user32, "-")}
    \cup (IF r.hookHandle # 0
          THEN {Call("UnhookWindowsHookEx", ctx, r.user32, hk[r.hookHandle])}
          ELSE {})
    \cup (IF r.callback # "none"
          THEN {Call("callback.close", ctx, r.user32, "-")}
          ELSE {})

HooksAfterStop(r, hk) ==
    IF r.hookHandle # 0 /\ hk[r.hookHandle] = "installed"
    THEN [hk EXCEPT ![r.hookHandle] = "removed"]
    ELSE hk

\* start() that returns to its caller right after the install, leaving the
\* retrieval of messages to whoever runs next on the thread.
DirectStartReturnsEarly(e) ==
    /\ eng[e].kind = "direct"
    /\ eng[e].pc \in {"idle", "returned", "threw"}
    /\ ~eng[e].running
    /\ eng[e].user32 = "open"
    /\ eng' = [eng EXCEPT ![e].running = TRUE, ![e].callback = "open",
                          ![e].hookHandle = e, ![e].pc = "returned",
                          ![e].cursor = Len(osEvents)]
    /\ hooks' = [hooks EXCEPT ![e] = "installed"]
    /\ calls' = [calls EXCEPT ![e] = @ \cup
          {Call("SetWindowsHookExW", "start", eng[e].user32, "ok")}]
    /\ UNCHANGED <<variant, worker, nextId, port, osEvents, delivered,
                   published, noopCalls, reported, listeners>>

\* start() of keyboard_hook.ts, called by the consumer: it returns only by
\* the throw of a refused install or when the loop ends.
DirectStart(e) ==
    /\ eng[e].kind = "direct"
    /\ eng[e].pc \in {"idle", "returned", "threw"}
    /\ IF eng[e].running
       THEN /\ noopCalls' = noopCalls \cup {"start"}
            /\ UNCHANGED progVars
       ELSE /\ \E ok \in BOOLEAN, out \in CallOutcomes(eng[e].user32) :
                 CASE out = "crash" ->
                        /\ eng' = [eng EXCEPT ![e].running = TRUE, ![e].callback = "open",
                                              ![e].pc = "crashed"]
                        /\ hooks' = hooks
                        /\ calls' = [calls EXCEPT ![e] = @ \cup
                              {Call("SetWindowsHookExW", "start", eng[e].user32, "crash")}]
                   [] out = "ok" /\ ok ->
                        /\ eng' = [eng EXCEPT ![e].running = TRUE, ![e].callback = "open",
                                              ![e].hookHandle = e, ![e].pc = "getmsg",
                                              ![e].cursor = Len(osEvents)]
                        /\ hooks' = [hooks EXCEPT ![e] = "installed"]
                        /\ calls' = [calls EXCEPT ![e] = @ \cup
                              {Call("SetWindowsHookExW", "start", eng[e].user32, "ok"),
                               Call("GetMessageW", "start", eng[e].user32, "installed")}]
                   [] OTHER ->
                        /\ eng' = [eng EXCEPT ![e].running = FALSE, ![e].callback = "closed",
                                              ![e].pc = "threw"]
                        /\ hooks' = hooks
                        /\ calls' = [calls EXCEPT ![e] = @ \cup
                              {Call("SetWindowsHookExW", "start", eng[e].user32, "null"),
                               Call("callback.close", "start", eng[e].user32, "-")}]
            /\ reported' = [reported EXCEPT ![eng[e].owner] =
                  IF eng'[e].pc = "threw" THEN @ \cup {"InstallError"} ELSE @]
            /\ UNCHANGED <<variant, worker, nextId, port, osEvents, delivered,
                           published, noopCalls, listeners>>

\* stop() without its `if (!this.running) return` guard.
DirectStopNoGuard(e) ==
    /\ eng[e].kind = "direct"
    /\ eng[e].pc \in {"idle", "returned", "threw"}
    /\ eng' = [eng EXCEPT ![e] = StoppedEngine(@)]
    /\ hooks' = HooksAfterStop(eng[e], hooks)
    /\ calls' = [calls EXCEPT ![e] = @ \cup StopCalls(e, eng[e], "top", hooks)]
    /\ UNCHANGED <<variant, worker, nextId, port, osEvents, delivered,
                   published, noopCalls,
                   reported, listeners>>

\* stop() of keyboard_hook.ts, called by the consumer outside any callback.
DirectStop(e) ==
    /\ eng[e].kind = "direct"
    /\ eng[e].pc \in {"idle", "returned", "threw"}
    /\ IF ~eng[e].running
       THEN /\ noopCalls' = noopCalls \cup
                  {IF eng[e].pc = "idle" THEN "stopIdle" ELSE "stopStopped"}
            /\ UNCHANGED progVars
       ELSE /\ eng' = [eng EXCEPT ![e] = StoppedEngine(@)]
            /\ hooks' = HooksAfterStop(eng[e], hooks)
            /\ calls' = [calls EXCEPT ![e] = @ \cup StopCalls(e, eng[e], "top", hooks)]
            /\ UNCHANGED <<variant, worker, nextId, port, osEvents, delivered,
                           published, noopCalls,
                   reported, listeners>>

\* What a subscriber listener does when it is run inside the callback:
\* nothing of interest, a call of stop(), or a call of stop() after it has run
\* for so long that the OS has removed the unresponsive hook by itself
\* ("expired").
ListenerActs == {"none", "stop", "stopLate"}

\* The hook registrations a listener's stop() finds.
HooksSeenBy(act, e) ==
    IF act = "stopLate" THEN [hooks EXCEPT ![e] = "expired"] ELSE hooks

\* The OS invokes the hook callback of the engine on the consumer's thread,
\* inside GetMessageW: the callback decodes, classifies and dispatches the
\* event to the subscriber listeners, which run before dispatchEvent
\* returns and may call stop().
DirectHookEnter(e) ==
    /\ eng[e].pc = "getmsg"
    /\ eng[e].kind = "direct"
    /\ hooks[e] = "installed"
    /\ eng[e].cursor < Len(osEvents)
    /\ LET inv == osEvents[eng[e].cursor + 1]
           msg == Decoded("direct", inv)
           entered == [eng[e] EXCEPT !.pc = "cb_fwd", !.cursor = @ + 1, !.cur = inv]
       IN IF msg # NoInv
          THEN /\ published' = [published EXCEPT ![e] = Append(@, msg)]
               /\ delivered' = [delivered EXCEPT ![eng[e].owner] =
                     Append(@, Dispatch(eng[e].owner, msg.type, msg.detail, e, "callback"))]
               /\ \E act \in ListenerActs :
                    IF act # "none" /\ Invoked(eng[e].owner, msg.type) # {} /\ entered.running
                    THEN /\ eng' = [eng EXCEPT ![e] = StoppedEngine(entered)]
                         /\ hooks' = HooksAfterStop(entered, HooksSeenBy(act, e))
                         /\ calls' = [calls EXCEPT ![e] =
                               @ \cup StopCalls(e, entered, "callback", HooksSeenBy(act, e))]
                    ELSE /\ eng' = [eng EXCEPT ![e] = entered]
                         /\ UNCHANGED <<hooks, calls>>
          ELSE /\ eng' = [eng EXCEPT ![e] = entered]
               /\ UNCHANGED <<published, delivered, hooks, calls>>
    /\ UNCHANGED <<variant, worker, nextId, port, osEvents, noopCalls,
                   reported, listeners>>

Next ==
    \/ \E raw \in RawInputs : Inject(raw)
    \/ \E f \in Facades : FacadeStart(f)
    \/ \E f \in Facades : FacadeStop(f)
    \/ \E f \in Facades : FacadeClose(f)
    \/ \E e \in EngineIds : OnMessage(e)
    \/ \E e \in EngineIds : WorkerRun(e)
    \/ \E e \in EngineIds : OneShotRun(e)
    \/ \E e \in EngineIds : HookEnter(e)
    \/ \E e \in EngineIds : HookForward(e)
    \/ \E e \in EngineIds : GetMessageReturn(e, OwnMessage(e))
    \/ \E e \in EngineIds : OneShotReturn(e)
    \/ \E e \in EngineIds : DirectStart(e)
    \/ \E e \in EngineIds : DirectStop(e)
    \/ \E e \in EngineIds : DirectHookEnter(e)

Spec == Init /\ [][Next]_vars

\* ------------------------------------------- a Running instance, any input
\* addEventListener / removeEventListener of the instance (EventTarget).
AddListener(f, l) ==
    /\ l \notin listeners[f]
    /\ listeners' = [listeners EXCEPT ![f] = @ \cup {l}]
    /\ UNCHANGED <<variant, worker, nextId, eng, port, osEvents, hooks, delivered,
                   published, calls, noopCalls, reported>>

RemoveListener(f, l) ==
    /\ l \in listeners[f]
    /\ listeners' = [listeners EXCEPT ![f] = @ \ {l}]
    /\ UNCHANGED <<variant, worker, nextId, eng, port, osEvents, hooks, delivered,
                   published, calls, noopCalls, reported>>

\* The engine once start() has installed the hook and made its first call
\* of GetMessageW.
RunningEngine(v, f) ==
    CASE v = "withWorker" ->
           [NewEngine("inline", f, "getmsg") EXCEPT
               !.running = TRUE, !.callback = "open", !.hookHandle = 1]
      [] v = "direct" ->
           [NewEngine("direct", f, "getmsg") EXCEPT
               !.running = TRUE, !.callback = "open", !.hookHandle = 1]
      [] v = "moduleWorker" ->
           [NewEngine("module", f, "getmsg") EXCEPT
               !.running = TRUE, !.callback = "open", !.hookHandle = 1]
      [] v = "flagsWorker" ->
           [NewEngine("flags", f, "getmsg") EXCEPT !.callback = "open"]
      [] OTHER ->
           [NewEngine("oneshot", f, "getmsg") EXCEPT !.callback = "open"]

\* An instance of any revision right after a start() that succeeded.
InitRunning ==
    /\ variant \in RunningVariants
    /\ worker = [f \in Instances |-> IF variant = "direct" \/ f \notin Facades THEN 0 ELSE 1]
    /\ nextId = 1
    /\ eng = [e \in EngineIds |-> IF e = 1 THEN RunningEngine(variant, "a") ELSE NoEngine]
    /\ port = [e \in EngineIds |-> <<>>]
    /\ osEvents = <<>>
    /\ hooks = [e \in EngineIds |-> IF e = 1 THEN "installed" ELSE "none"]
    /\ delivered = [f \in Instances |-> <<>>]
    /\ published = [e \in EngineIds |-> <<>>]
    /\ calls = [e \in EngineIds |->
                  IF e = 1 THEN {Call("SetWindowsHookExW", "start", "open", "ok"),
                                 Call("GetMessageW", "start", "open", "installed")}
                  ELSE {}]
    /\ noopCalls = {}
    /\ reported = [f \in Instances |-> {}]
    /\ listeners = [f \in Instances |-> UsageListeners]

\* The hook chain hands the callback any invocation, the consumer registers
\* and withdraws listeners, the callback and the relay run.
NextRunning ==
    \/ \E raw \in HookInputs : Inject(raw)
    \/ \E f \in Facades, l \in LateListeners : AddListener(f, l)
    \/ \E f \in Facades, l \in LateListeners : RemoveListener(f, l)
    \/ \E e \in EngineIds : HookEnter(e)
    \/ \E e \in EngineIds : DirectHookEnter(e)
    \/ \E e \in EngineIds : HookForward(e)
    \/ \E e \in EngineIds : OnMessage(e)

SpecRunning == InitRunning /\ [][NextRunning]_vars

\* --------------------------------------------------- any value of the flags
\* Bits a flags value is made of: the low eight, one of the second byte and
\* one of the fourth.
FlagBits == {1, 2, 4, 8, 16, 32, 64, 128, 256, 1073741824}

RECURSIVE SumOf(_)
SumOf(S) == IF S = {} THEN 0 ELSE LET m == CHOOSE x \in S : TRUE IN m + SumOf(S \ {m})

\* Every combination of those bits.
FlagValues == {SumOf(S) : S \in SUBSET FlagBits}

\* A Running instance of the flag-decoding revision for which the OS has
\* queued a key-down with any flags.
InitFlags ==
    /\ variant = "flagsWorker"
    /\ worker = [f \in Instances |-> IF f \in Facades THEN 1 ELSE 0]
    /\ nextId = 1
    /\ eng = [e \in EngineIds |-> IF e = 1 THEN RunningEngine(variant, "a") ELSE NoEngine]
    /\ port = [e \in EngineIds |-> <<>>]
    /\ \E fl \in FlagValues :
          osEvents = <<Stamp(RawInput(0, WM_KEYDOWN, KeyA, KeyB, fl, 0, TRUE), 1)>>
    /\ hooks = [e \in EngineIds |-> IF e = 1 THEN "installed" ELSE "none"]
    /\ delivered = [f \in Instances |-> <<>>]
    /\ published = [e \in EngineIds |-> <<>>]
    /\ calls = [e \in EngineIds |->
                  IF e = 1 THEN {Call("SetWindowsHookExW", "start", "open", "ok"),
                                 Call("GetMessageW", "start", "open", "installed")}
                  ELSE {}]
    /\ noopCalls = {}
    /\ reported = [f \in Instances |-> {}]
    /\ listeners = [f \in Instances |-> UsageListeners]

\* The callback decodes the event and forwards it, the relay delivers it.
NextFlags ==
    \/ \E e \in EngineIds : HookEnter(e)
    \/ \E e \in EngineIds : HookForward(e)
    \/ \E e \in EngineIds : OnMessage(e)

SpecFlags == InitFlags /\ [][NextFlags]_vars

\* ------------------------------------------- the message loop, any result
\* A Running instance of a revision with the while (running) loop.
InitLoop ==
    /\ InitRunning
    /\ eng[1].kind \in LoopKinds

\* Keys are typed and GetMessageW returns whatever it may return, at any
\* time; the callback and the relay run.
NextLoop ==
    \/ \E raw \in RawInputs : Inject(raw)
    \/ \E e \in EngineIds, res \in GetMessageResults : GetMessageReturn(e, res)
    \/ \E e \in EngineIds : HookEnter(e)
    \/ \E e \in EngineIds : DirectHookEnter(e)
    \/ \E e \in EngineIds : HookForward(e)
    \/ \E e \in EngineIds : OnMessage(e)

SpecLoop == InitLoop /\ [][NextLoop]_vars

\* ------------------------------------------------- two instances, one process
\* Two facades of keyboard_hook_with_worker.ts in one process. The consumer
\* calls start() on each once (a restart of one instance is a matter of
\* Spec) and stop() on each at will.
Started(f) == \E e \in EngineIds : eng[e].owner = f

InitTwo ==
    /\ Init
    /\ variant = "withWorker"

\* The key events typed while the two instances are used.
KeyInputs == {raw \in RawInputs : raw.nCode = 0}

NextTwo ==
    \/ \E raw \in KeyInputs : Inject(raw)
    \/ \E f \in Instances : ~Started(f) /\ FacadeStart(f)
    \/ \E f \in Instances : FacadeStop(f)
    \/ \E e \in EngineIds : WorkerRun(e)
    \/ \E e \in EngineIds : HookEnter(e)
    \/ \E e \in EngineIds : HookForward(e)
    \/ \E e \in EngineIds : GetMessageReturn(e, OwnMessage(e))
    \/ \E e \in EngineIds : OnMessage(e)

SpecTwo == InitTwo /\ [][NextTwo]_vars

\* ============================================================= properties
\* ---- state functions the properties are written with
LiveWorkers(f) ==
    {e \in EngineIds : eng[e].owner = f /\ eng[e].pc \notin {"none", "terminated"}}

InstalledHooks(f) ==
    {e \in EngineIds : eng[e].owner = f /\ hooks[e] = "installed"}

NoDuplicateDelivery(f) ==
    \A i, j \in DOMAIN delivered[f] :
        i # j => delivered[f][i].detail.time # delivered[f][j].detail.time

\* The events of facade f's listeners that came from engine e, in order.
DeliveredFrom(f, e) ==
    LET FromE(m) == m.from = e IN SelectSeq(delivered[f], FromE)

\* C1: in every state an instance has at most one live hook worker and at
\* most one installed hook, no OS event was dispatched to its listeners
\* twice, and a start() while Running changes nothing.
C1_SingleHook ==
    /\ [](\A f \in Facades :
            /\ Cardinality(LiveWorkers(f)) <= 1
            /\ Cardinality(InstalledHooks(f)) <= 1
            /\ NoDuplicateDelivery(f))
    /\ [][\A f \in Facades :
            (worker[f] # 0 /\ FacadeStart(f)) => UNCHANGED progVars]_vars

\* A Running instance on which start() was called again and which has since
\* dispatched two events.
C1_Witness ==
    /\ variant = "withWorker"
    /\ "start" \in noopCalls
    /\ worker["a"] # 0
    /\ hooks[worker["a"]] = "installed"
    /\ Len(delivered["a"]) = 2

\* C2: a stop() on an instance that is not Running changes no state: no
\* native call, no termination, no delivery.
C2_StopNotRunningIsNoop ==
    [][/\ \A f \in Facades : (worker[f] = 0 /\ FacadeStop(f)) => UNCHANGED progVars
       /\ \A e \in EngineIds : (~eng[e].running /\ DirectStop(e)) => UNCHANGED progVars]_vars

\* stop() was called before any start() and again after a stop().
C2_Witness ==
    /\ {"stopIdle", "stopStopped"} \subseteq noopCalls
    /\ variant = "withWorker"
    /\ worker["a"] = 0
    /\ eng[1].pc = "terminated"

\* C3: on the worker-based facade no listener is invoked while the instance
\* is stopped: once stop() has returned nothing is dispatched, whatever the
\* worker had posted before.
C3_NoDeliveryAfterStop ==
    [][\A f \in Facades :
         (variant = "withWorker" /\ worker[f] = 0) => delivered'[f] = delivered[f]]_vars

\* A stopped instance whose worker had published an event that was not
\* dispatched when stop() ran.
C3_Witness ==
    /\ variant = "withWorker"
    /\ worker["a"] = 0
    /\ \E e \in EngineIds :
         /\ eng[e].pc = "terminated"
         /\ Len(published[e]) > Len(DeliveredFrom("a", e))

\* C4: when stop() has returned on an instance whose install had succeeded,
\* its hook has been removed by UnhookWindowsHookEx.
C4_HookUnhookedByStop ==
    \A f \in Facades :
        (variant = "withWorker" /\ worker[f] = 0) =>
            \A e \in EngineIds :
                (eng[e].owner = f /\ hooks[e] # "none") =>
                    /\ hooks[e] = "removed"
                    /\ \E c \in calls[e] : c.fn = "UnhookWindowsHookEx"

C6_DeliveredPrefixOfPublished ==
    \A f \in Facades :
        /\ \A e \in EngineIds :
             LET d == DeliveredFrom(f, e) IN
             /\ Len(d) <= Len(published[e])
             /\ \A i \in DOMAIN d :
                  /\ d[i].type = published[e][i].type
                  /\ d[i].detail = published[e][i].detail
             /\ (eng[e].owner = f /\ eng[e].pc \notin {"none", "terminated"}) =>
                  Len(d) + Len(port[e]) = Len(published[e])
        /\ \A i, j \in DOMAIN delivered[f] :
             i < j => delivered[f][i].from <= delivered[f][j].from

\* A key-down and then a key-up were published by one worker and both
\* dispatched, the key-down first.
C6_Witness ==
    /\ variant = "withWorker"
    /\ Len(published[1]) = 2
    /\ Len(DeliveredFrom("a", 1)) = 2
    /\ delivered["a"][1].type = "keydown"
    /\ delivered["a"][2].type = "keyup"

\* An OS event, the k-th, that the installed hook of engine e has not been
\* called for yet and that its callback would publish.
Pending(e, k) ==
    /\ k <= Len(osEvents)
    /\ hooks[e] = "installed"
    /\ eng[e].cursor < k
    /\ Decoded(eng[e].kind, osEvents[k]) # NoInv

DispatchedFrom(e, k) ==
    \E f \in Instances : \E i \in DOMAIN delivered[f] :
        /\ delivered[f][i].from = e
        /\ delivered[f][i].detail.time = k

\* The scheduling the runtime gives: the hook thread runs its code, the OS
\* calls an installed hook whose thread is retrieving messages, and the
\* consumer's event loop dispatches the messages it has received, and
\* GetMessageW returns when a quit message has been posted to its thread.
\* Calls of the consumer, new OS events and any other return of GetMessageW
\* are not forced.
Fairness ==
    \A e \in EngineIds :
        /\ WF_vars(eng[e].quit /\ GetMessageReturn(e, OwnMessage(e)))
        /\ WF_vars(WorkerRun(e))
        /\ WF_vars(OneShotRun(e))
        /\ WF_vars(HookEnter(e))
        /\ WF_vars(DirectHookEnter(e))
        /\ WF_vars(HookForward(e))
        /\ WF_vars(OnMessage(e))

SpecFair == Spec /\ Fairness

\* C7: an event produced while a hook is installed is eventually
\* dispatched to the listeners, unless the instance is stopped first.
C7_EveryEventDispatched ==
    \A e \in EngineIds : \A k \in 1..MaxEvents :
        Pending(e, k) ~> (DispatchedFrom(e, k) \/ hooks[e] # "installed")

\* The same, for the engines that retrieve messages in a loop.
C7_LoopEnginesDispatch ==
    \A e \in EngineIds : \A k \in 1..MaxEvents :
        (Pending(e, k) /\ eng[e].kind \in {"inline", "direct"})
            ~> (DispatchedFrom(e, k) \/ hooks[e] # "installed")

\* C8: UnhookWindowsHookEx and the release of the callback are made only
\* once the message loop has been left: never from inside a hook callback
\* invocation, which runs nested in GetMessageW.
C8_UnhookAfterLoopExit ==
    \A e \in EngineIds : \A c \in calls[e] :
        c.fn \in {"UnhookWindowsHookEx", "callback.close"} => c.ctx # "callback"

\* C9: an instance that has been stopped by stop() is never Running again.
C9_StoppedIsTerminal ==
    /\ \A f \in Facades :
         (variant = "withWorker" /\ \E e \in EngineIds :
                                      eng[e].owner = f /\ eng[e].pc = "terminated")
            => worker[f] = 0
    /\ \A e \in EngineIds :
         (eng[e].kind = "direct" /\ \E c \in calls[e] : c.fn = "PostQuitMessage")
            => ~eng[e].running

\* C10: GetMessageW is never called by a start() whose SetWindowsHookExW
\* was refused.
C10_NoLoopAfterRefusedInstall ==
    \A e \in EngineIds : \A c \in calls[e] :
        c.fn = "GetMessageW" => c.arg # "refused"

\* The start() calls of engine e whose SetWindowsHookExW was refused.
InstallRefused(e) ==
    \E c \in calls[e] : c.fn = "SetWindowsHookExW" /\ c.arg = "null"

\* C11: when the install of a start() was refused, the consumer that called
\* start() on the instance was given an InstallError, as the outcome of
\* start() or as a signal dispatched to it later.
C11_InstallFailureReported ==
    \A e \in EngineIds :
        (eng[e].kind \in {"inline", "direct"} /\ InstallRefused(e)) =>
            "InstallError" \in reported[eng[e].owner]

\* The engine used on the consumer's thread does report it: its start()
\* throws to the caller.
C11_DirectStartThrows ==
    \A e \in EngineIds :
        (eng[e].kind = "direct" /\ InstallRefused(e)) =>
            "InstallError" \in reported[eng[e].owner]

\* C12: after a start() whose install was refused the instance is not
\* marked running, holds no hook handle, no open callback and no worker, so
\* that the guard of a later start() does not take it for Running.
C12_FailedStartLeavesIdle ==
    \A e \in EngineIds :
        eng[e].pc = "threw" =>
            /\ ~eng[e].running
            /\ eng[e].hookHandle = 0
            /\ eng[e].callback # "open"
            /\ hooks[e] # "installed"
            /\ \A f \in Facades : worker[f] # e

\* The engine object itself is left as the claim says, in the worker too.
C12_EngineLeftIdle ==
    \A e \in EngineIds :
        eng[e].pc = "threw" =>
            /\ ~eng[e].running
            /\ eng[e].hookHandle = 0
            /\ eng[e].callback # "open"
            /\ hooks[e] # "installed"

\* The hook-chain invocation an event was decoded from: the record's time
\* stamp is its position among the invocations.
RawOf(m) == osEvents[m.detail.time]

FourMessages == {WM_KEYDOWN, WM_KEYUP, WM_SYSKEYDOWN, WM_SYSKEYUP}
FourKinds == {"keydown", "keyup", "syskeydown", "syskeyup"}

\* C13: an event is decoded and published only for an invocation whose
\* hook-chain code is 0 and whose record pointer is not null.
C13_OnlySentinelProcessed ==
    \A e \in EngineIds : \A i \in DOMAIN published[e] :
        /\ RawOf(published[e][i]).nCode = 0
        /\ RawOf(published[e][i]).lParam # Null

\* The engines that test nCode === 0 do as the claim says.
C13_SentinelEngines ==
    \A e \in EngineIds : \A i \in DOMAIN published[e] :
        eng[e].kind \in LoopKinds =>
            /\ RawOf(published[e][i]).nCode = 0
            /\ RawOf(published[e][i]).lParam # Null

\* Message identifiers around and between the four keyboard messages.
MessageIds == {0} \cup ((WM_KEYDOWN - 1)..(WM_SYSKEYUP + 1))

\* The kind the four messages are to get; anything else gets none of them.
IsKindOf(name, message) ==
    /\ (message = WM_KEYDOWN) <=> (name = "keydown")
    /\ (message = WM_KEYUP) <=> (name = "keyup")
    /\ (message = WM_SYSKEYDOWN) <=> (name = "syskeydown")
    /\ (message = WM_SYSKEYUP) <=> (name = "syskeyup")

\* C14: each revision's mapping sends 0x0100 to keydown, 0x0101 to keyup,
\* 0x0104 to syskeydown, 0x0105 to syskeyup and nothing else to any of
\* these, and the kind of every published event is the one its message
\* identifier has, whatever the hook-chain code, the key and the record.
C14_KindByMessage ==
    /\ \A m \in MessageIds :
          /\ IsKindOf(GetEventName(m), m)
          /\ IsKindOf(EventNameMap(m), m)
          /\ IsKindOf(GetEventNameDirect(m), m)
    /\ \A e \in EngineIds : \A i \in DOMAIN published[e] :
          IsKindOf(published[e][i].type, RawOf(published[e][i]).wParam)

\* An engine that looks the kind up in eventNameMap has published a
\* system key-down and then a plain key-down of another key.
C14_Witness ==
    \E e \in EngineIds :
        /\ eng[e].kind = "oneshot"
        /\ Len(published[e]) = 2
        /\ published[e][1].type = "syskeydown"
        /\ published[e][2].type = "keydown"
        /\ published[e][2].detail.vkCode = KeyB

\* Invocation k has been handled by the callback of engine e and was
\* processable with a message identifier that is none of the four.
HandledUnmapped(e, k) ==
    /\ k <= eng[e].cursor
    /\ osEvents[k].nCode = 0
    /\ osEvents[k].lParam # Null
    /\ osEvents[k].wParam \notin FourMessages

\* C15: in the engine of keyboard_hook_with_worker.ts a processable
\* invocation with an unmapped identifier is published under 'key' and
\* is on its way to or has reached the listeners under that kind, and only
\* such events are dispatched under 'key' and to 'key' listeners.
C15_UnmappedPublishedAsKey ==
    \A e \in EngineIds :
        eng[e].kind = "inline" =>
            /\ \A k \in DOMAIN osEvents :
                  HandledUnmapped(e, k) =>
                      /\ \E i \in DOMAIN published[e] :
                            /\ published[e][i].type = "key"
                            /\ published[e][i].detail.time = k
                      /\ \/ \E i \in DOMAIN port[e] :
                               port[e][i].type = "key" /\ port[e][i].detail.time = k
                         \/ \E i \in DOMAIN delivered[eng[e].owner] :
                               /\ delivered[eng[e].owner][i].type = "key"
                               /\ delivered[eng[e].owner][i].detail.time = k
            /\ \A i \in DOMAIN delivered[eng[e].owner] :
                  LET d == delivered[eng[e].owner][i] IN
                  /\ (d.type = "key") <=> (RawOf(d).wParam \notin FourMessages)
                  /\ \A l \in d.to : (l.kind = "key") <=> (d.type = "key")

\* A 'key' listener of the facade was invoked for an event with an
\* unmapped identifier, after a key-down that it was not invoked for.
C15_Witness ==
    /\ variant = "withWorker"
    /\ Len(delivered["a"]) = 2
    /\ delivered["a"][1].type = "keydown"
    /\ Listener("key", "late") \notin delivered["a"][1].to
    /\ delivered["a"][2].type = "key"
    /\ RawOf(delivered["a"][2]).wParam = UnmappedMessage
    /\ delivered["a"][2].to = {Listener("key", "late")}

\* C16: every message the facade received from the relay was dispatched
\* once, to listeners of one kind only, the kind the callback gave the
\* event, with the fields the callback read from the raw record.
C16_OneKindOnceSameFields ==
    \A f \in Facades : \A i \in DOMAIN delivered[f] :
        LET d == delivered[f][i] IN
        d.ctx = "consumer" =>
            /\ \A l \in d.to : l.kind = d.type
            /\ d.type = Decoded(eng[d.from].kind, RawOf(d)).type
            /\ d.detail = Decoded(eng[d.from].kind, RawOf(d)).detail
            /\ d.detail.vkCode = RawOf(d).struct.vkCode
            /\ d.detail.scanCode = RawOf(d).struct.scanCode
            /\ d.detail.flags = IF eng[d.from].kind = "flags"
                                 THEN DecodeFlags(RawOf(d).struct.flags)
                                 ELSE RawOf(d).struct.flags
            /\ \A j \in DOMAIN delivered[f] :
                  (j # i /\ delivered[f][j].from = d.from) =>
                      delivered[f][j].detail.time # d.detail.time

\* A key-down ran the two keydown listeners and the matching key-up the
\* keyup listener, with the same vkCode.
C16_Witness ==
    /\ variant \in {"withWorker", "oneshot"}
    /\ Len(delivered["a"]) = 2
    /\ delivered["a"][1].type = "keydown"
    /\ delivered["a"][1].to = {Listener("keydown", "log"), Listener("keydown", "late")}
    /\ delivered["a"][2].type = "keyup"
    /\ delivered["a"][2].to = {Listener("keyup", "log")}
    /\ delivered["a"][1].detail.vkCode = KeyA
    /\ delivered["a"][2].detail.vkCode = KeyA

\* C17: every dispatch invokes exactly the listeners of the event's kind
\* that are registered when it is made: one registered while Running is
\* invoked from then on, one removed no more.
C17_DispatchUsesCurrentListeners ==
    [][\A f \in Facades :
         Len(delivered'[f]) > Len(delivered[f]) =>
             LET d == delivered'[f][Len(delivered'[f])]
             IN d.to = {l \in listeners[f] : l.kind = d.type}]_vars

\* A listener registered after start() was invoked for the next key-down
\* and, removed afterwards, not for the one after.
C17_Witness ==
    /\ variant = "withWorker"
    /\ Len(delivered["a"]) = 2
    /\ delivered["a"][1].type = "keydown"
    /\ delivered["a"][2].type = "keydown"
    /\ Listener("keydown", "late") \in delivered["a"][1].to
    /\ Listener("keydown", "late") \notin delivered["a"][2].to
    /\ Listener("keydown", "late") \notin listeners["a"]

\* The OS has an invocation for the installed hook of worker e, whose
\* thread is retrieving messages.
InvocationDue(e) ==
    /\ eng[e].kind \in WorkerKinds
    /\ eng[e].pc = "getmsg"
    /\ hooks[e] = "installed"
    /\ eng[e].cursor < Len(osEvents)

\* C18: the callback can run and publish whenever the OS has an invocation
\* for it, however many events the parent has not dispatched and whatever
\* the consumer does; publishing leaves the hook thread in the callback,
\* about to forward; and a teardown drops what is undelivered and ends the
\* worker without an error outcome of the hook thread.
C18_PublishNeverWaits ==
    /\ [](\A e \in EngineIds : InvocationDue(e) => ENABLED HookEnter(e))
    /\ [][\A e \in EngineIds : HookEnter(e) => eng'[e].pc = "cb_fwd"]_vars
    /\ [][\A f \in Facades :
            (worker[f] # 0 /\ (FacadeStop(f) \/ FacadeClose(f))) =>
                /\ port'[worker[f]] = <<>>
                /\ eng'[worker[f]].pc = "terminated"]_vars

\* The parent has dispatched nothing of what worker e published, and the
\* next invocation is due.
C18_Witness ==
    \E e \in EngineIds :
        /\ InvocationDue(e)
        /\ port[e] # <<>>
        /\ Len(port[e]) = Len(published[e])
        /\ delivered["a"] = <<>>

\* C19: no subscriber listener is run nested in a hook callback
\* invocation.
C19_ListenersOutsideCallback ==
    \A f \in Facades : \A i \in DOMAIN delivered[f] :
        delivered[f][i].ctx = "callback" => delivered[f][i].to = {}

\* The facades that run the engine in a worker dispatch on the consumer's
\* event loop only.
C19_WorkerFacadesDispatchOutside ==
    \A f \in Facades : \A i \in DOMAIN delivered[f] :
        eng[delivered[f][i].from].kind \in WorkerKinds =>
            delivered[f][i].ctx = "consumer"

\* The hook thread of facade f's worker is blocked in GetMessageW.
HookThreadBlocked(f, e) ==
    /\ worker[f] = e
    /\ eng[e].kind \in WorkerKinds
    /\ eng[e].pc = "getmsg"

\* C20: the facade's start() returns before the worker has run any of its
\* script, and while the hook thread is blocked in GetMessageW the consumer
\* can register a listener, call stop() (close() in the one-shot revision)
\* and dispatch an event it has received.
C20_ConsumerNeverBlocked ==
    /\ [](\A f \in Facades : \A e \in EngineIds :
            HookThreadBlocked(f, e) =>
                /\ \A l \in LateListeners : ENABLED AddListener(f, l)
                /\ (variant = "withWorker" => ENABLED FacadeStop(f))
                /\ (variant = "oneshot" => ENABLED FacadeClose(f))
                /\ (port[e] # <<>> => ENABLED OnMessage(e)))
    /\ [][\A f \in Facades :
            (worker[f] = 0 /\ FacadeStart(f)) =>
                /\ worker'[f] # 0
                /\ eng'[worker'[f]].pc = "boot"
                /\ calls'[worker'[f]] = {}]_vars

\* The consumer has dispatched one event and received another while the
\* hook thread is blocked in GetMessageW.
C20_Witness ==
    \E e \in EngineIds :
        /\ variant = "withWorker"
        /\ HookThreadBlocked("a", e)
        /\ Len(delivered["a"]) = 1
        /\ Len(port[e]) = 1

\* ---- the record decoder
\* Records the OS can hand the callback: every field takes two values.
KeyRecords ==
    [vkCode : {KeyA, KeyPrintScreen}, scanCode : {KeyA, KeyB},
     flags : {0, FlagMask.up}, time : 1..MaxEvents, extraInfo : {0, 1}]

\* What the callback of an engine of kind `kind` would have published for
\* the invocation `raw` had lParam pointed at the bytes of record r.
DecodedRecord(kind, raw, r) ==
    Decoded(kind, [raw EXCEPT !.struct = r, !.lParam = StructBytes(r)]).detail

\* The KeyEvent p was decoded without loss from the record of its invocation:
\* its fields are the record's five fields, and no other record decodes to it.
Lossless(kind, p) ==
    /\ DOMAIN RawOf(p).struct \subseteq DOMAIN p.detail
    /\ \A field \in DOMAIN RawOf(p).struct \cap DOMAIN p.detail :
           field # "flags" => p.detail[field] = RawOf(p).struct[field]
    /\ \A r \in KeyRecords :
           (DecodedRecord(kind, RawOf(p), r) = p.detail) <=> (r = RawOf(p).struct)

\* C21: every KeyEvent a callback publishes is the record it was handed,
\* field by field (vkCode, scanCode, flags, time at byte offsets 0, 4, 8, 12,
\* extraInfo at offset 16), and two records that differ in any field are
\* decoded to different KeyEvents.
C21_DecoderLossless ==
    \A e \in EngineIds : \A i \in DOMAIN published[e] :
        /\ Lossless(eng[e].kind, published[e][i])
        /\ published[e][i].detail.flags = RawOf(published[e][i]).struct.flags

\* parseKeyEvent of keyboard_hook_with_worker.ts and of keyboard_hook.ts,
\* which read all five fields, decode without loss.
C21_ParseKeyEventLossless ==
    \A e \in EngineIds : \A i \in DOMAIN published[e] :
        eng[e].kind \in LoopKinds =>
            /\ Lossless(eng[e].kind, published[e][i])
            /\ published[e][i].detail.flags = RawOf(published[e][i]).struct.flags
            /\ published[e][i].detail.extraInfo = RawOf(published[e][i]).struct.extraInfo

\* A loop engine has decoded the injected event that carries extra
\* information and the key whose code takes two bytes.
C21_ParseKeyEventWitness ==
    \E e \in EngineIds :
        /\ eng[e].kind \in LoopKinds
        /\ Len(published[e]) = 2
        /\ published[e][1].detail.extraInfo = 1
        /\ published[e][2].detail.vkCode = KeyPrintScreen

\* ---- two instances
\* Everything that belongs to instance f: its fields, its listeners, what it
\* has dispatched and reported, and the workers it created with their hooks.
OwnState(f) ==
    <<worker[f], delivered[f], listeners[f], reported[f],
      [e \in EngineIds |->
          IF eng[e].owner = f
          THEN <<eng[e], port[e], hooks[e], published[e], calls[e]>>
          ELSE <<>>]>>

\* The messages of a sequence without the bookkeeping of their dispatch.
Events(seq) == [i \in DOMAIN seq |-> [type |-> seq[i].type, detail |-> seq[i].detail]]

\* C22: start() and stop() of one instance change nothing that belongs to
\* another; the workers and hook handles of two instances are different;
\* what reaches the listeners of a Running instance comes from its own
\* worker, and is, with what is still on its way, every event its hook was
\* called for, in order and once each, none skipped.
C22_InstancesIndependent ==
    /\ [][\A f, g \in Instances :
            (f # g /\ (FacadeStart(f) \/ FacadeStop(f))) => OwnState(g)' = OwnState(g)]_vars
    /\ [](\A f, g \in Instances :
            (f # g /\ worker[f] # 0 /\ worker[g] # 0) =>
                /\ worker[f] # worker[g]
                /\ eng[worker[f]].owner = f
                /\ (eng[worker[f]].hookHandle # 0 =>
                       eng[worker[f]].hookHandle # eng[worker[g]].hookHandle))
    /\ [](\A f \in Instances :
            /\ NoDuplicateDelivery(f)
            /\ \A i \in DOMAIN delivered[f] : eng[delivered[f][i].from].owner = f
            /\ worker[f] # 0 =>
                  LET e == worker[f] IN
                  /\ Events(DeliveredFrom(f, e)) \o Events(port[e]) = Events(published[e])
                  /\ \A i \in DOMAIN published[e] :
                        published[e][i].detail.time =
                            eng[e].cursor - Len(published[e]) + i)

\* Both instances are Running and the listeners of each were run once for
\* the same OS event.
C22_Witness ==
    /\ worker["a"] # 0 /\ worker["b"] # 0
    /\ hooks[worker["a"]] = "installed" /\ hooks[worker["b"]] = "installed"
    /\ Len(osEvents) = 1
    /\ Len(delivered["a"]) = 1 /\ delivered["a"][1].detail.time = 1
    /\ Len(delivered["b"]) = 1 /\ delivered["b"][1].detail.time = 1

\* An instance on which stop() has taken effect.
StoppedInstance(f) == worker[f] = 0 /\ Started(f)

\* C23: once an instance is stopped, start() of an instance that was never
\* started can be called and creates that instance's worker; nothing is
\* dispatched to the listeners of a stopped instance any more, the listeners
\* of an instance get the events of its own worker only, and a message the
\* worker of a Running instance has posted can be dispatched to them
\* whatever state the other instance is in.
C23_FreshInstanceAfterStop ==
    /\ [](\A f, g \in Instances :
            (StoppedInstance(f) /\ ~Started(g) /\ nextId < MaxWorkers) =>
                ENABLED FacadeStart(g))
    /\ [][\A g \in Instances :
            (worker[g] = 0 /\ FacadeStart(g)) =>
                /\ worker'[g] # 0
                /\ eng'[worker'[g]].pc = "boot"
                /\ eng'[worker'[g]].owner = g]_vars
    /\ [][\A f \in Instances : worker[f] = 0 => delivered'[f] = delivered[f]]_vars
    /\ [](\A f \in Instances : \A i \in DOMAIN delivered[f] :
            eng[delivered[f][i].from].owner = f)
    /\ [](\A g \in Instances : \A e \in EngineIds :
            (worker[g] = e /\ port[e] # <<>>) => ENABLED OnMessage(e))

\* Instance a got the first event and was stopped; instance b was started
\* after that and its listeners got the second event, which a's did not.
C23_Witness ==
    /\ StoppedInstance("a")
    /\ worker["b"] # 0
    /\ Len(osEvents) = 2
    /\ Len(delivered["a"]) = 1 /\ delivered["a"][1].detail.time = 1
    /\ Len(delivered["b"]) = 1 /\ delivered["b"][1].detail.time = 2

\* ---- errors of the hook thread
\* The kinds of message that carry a key event.
KeyKinds == FourKinds \cup {"key"}

\* C24: when the install on a worker's hook thread was refused, the worker
\* has posted a control message that is not a key-event message, or the
\* consumer has been given the error; never a key event in its place.
C24_FatalErrorCrossesRelay ==
    \A e \in EngineIds :
        (eng[e].kind \in WorkerKinds /\ eng[e].pc = "threw") =>
            /\ \/ \E i \in DOMAIN port[e] : port[e][i].type \notin KeyKinds
               \/ "InstallError" \in reported[eng[e].owner]
            /\ published[e] = <<>>

\* The two kinds of outcome are never mixed up: what the facade dispatches
\* is a key event some callback invocation published, and dispatching a
\* message never adds an error outcome.
C24_KeyEventsStayKeyEvents ==
    /\ [](\A f \in Facades : \A i \in DOMAIN delivered[f] :
            /\ delivered[f][i].type \in KeyKinds
            /\ Decoded(eng[delivered[f][i].from].kind, RawOf(delivered[f][i])) # NoInv)
    /\ [][\A e \in EngineIds : OnMessage(e) => reported' = reported]_vars

\* ---- teardown
\* UnhookWindowsHookEx was called by engine e and failed: the registration
\* it was given was not installed any more.
UninstallFailed(e) ==
    \E c \in calls[e] : c.fn = "UnhookWindowsHookEx" /\ c.arg # "installed"

\* C25: a stop() that takes effect leaves the engine not running with hook
\* handle and callback cleared whether the uninstall succeeds or fails, and
\* a failed uninstall is given to the caller of stop() as a TeardownError.
C25_StopClearsAndReports ==
    /\ \A e \in EngineIds :
          (eng[e].kind = "direct" /\ ~eng[e].running /\ eng[e].pc # "idle") =>
              eng[e].hookHandle = 0 /\ eng[e].callback \in {"none", "closed"}
    /\ \A e \in EngineIds :
          UninstallFailed(e) => "TeardownError" \in reported[eng[e].owner]

\* The state is cleared whatever UnhookWindowsHookEx returns.
C25_StopClearsState ==
    [][\A e \in EngineIds :
         (eng[e].kind = "direct" /\ eng[e].running /\ ~eng'[e].running) =>
             /\ eng'[e].hookHandle = 0
             /\ eng'[e].callback = "none"
             /\ hooks'[e] # "installed"]_vars

\* A stop() whose uninstall failed has run and the loop has ended.
C25_StopClearsStateWitness ==
    \E e \in EngineIds :
        /\ eng[e].kind = "direct"
        /\ UninstallFailed(e)
        /\ eng[e].pc = "returned"

\* ---- the message loop
\* Engine e has asked for the end of its loop: stop() posted the quit message.
ShutdownRequested(e) == \E c \in calls[e] : c.fn = "PostQuitMessage"

\* C26: in every revision the hook thread goes on retrieving messages after
\* a successful install: a retrieval that returns is followed by the next
\* one unless shutdown was requested, so start() has returned only where
\* shutdown was requested.
C26_LoopRetrievesRepeatedly ==
    /\ [][\A e \in EngineIds :
            (eng[e].pc = "getmsg" /\ hooks[e] = "installed" /\ eng'[e].pc = "returned") =>
                ShutdownRequested(e)]_vars
    /\ [](\A e \in EngineIds : eng[e].pc = "returned" => hooks[e] # "installed")

\* The revisions with a while (running) loop do retrieve again.
C26_LoopEnginesRetrieveAgain ==
    /\ [][\A e \in EngineIds :
            (eng[e].kind \in LoopKinds /\ eng[e].pc = "getmsg"
                 /\ eng'[e].pc = "returned") => ShutdownRequested(e)]_vars
    /\ [](\A e \in EngineIds :
            (eng[e].kind \in LoopKinds /\ eng[e].pc = "returned") =>
                hooks[e] # "installed")

\* stop() of engine e has run on its Running hook thread: running is false
\* and the quit message is posted, and the thread is in or under GetMessageW.
StopRanOnHookThread(e) ==
    /\ eng[e].kind \in LoopKinds
    /\ ~eng[e].running
    /\ eng[e].quit
    /\ eng[e].pc \in {"cb_fwd", "getmsg"}

\* C27: after stop() has run on a Running hook thread the blocked
\* GetMessageW wakes up, the loop ends and start() returns.
C27_StopEndsLoop ==
    \A e \in EngineIds : StopRanOnHookThread(e) ~> (eng[e].pc = "returned")

\* It does unless the callback that is still to forward the event faults on
\* the library handle stop() has closed.
C27_StopEndsLoopOrFaults ==
    \A e \in EngineIds :
        StopRanOnHookThread(e) ~> (eng[e].pc \in {"returned", "crashed"})

\* stop() ran inside a callback and start() has returned after it.
C27_StopEndsLoopWitness ==
    \E e \in EngineIds :
        /\ eng[e].pc = "returned"
        /\ Call("PostQuitMessage", "callback", "open", "-") \in calls[e]
        /\ ~eng[e].quit

\* The loop of engine e called GetMessageW again after a retrieval that
\* returned zero or failed.
Retried(e) == \E c \in calls[e] : c.fn = "GetMessageW" /\ c.arg = "retry"

\* C28: whether the loop goes on depends on the running flag alone: when
\* GetMessageW returns while running is true, whatever it returns, the
\* thread calls GetMessageW again and the engine stays Running with its hook
\* installed; when running is false start() returns.
C28_LoopDependsOnRunningOnly ==
    /\ [][\A e \in EngineIds : \A res \in GetMessageResults :
            (GetMessageReturn(e, res) /\ eng[e].running) =>
                /\ eng'[e].pc = "getmsg"
                /\ eng'[e].running
                /\ eng'[e].hookHandle = eng[e].hookHandle
                /\ eng'[e].callback = eng[e].callback
                /\ hooks' = hooks
                /\ LoopCall(eng[e].user32, res) \in calls'[e]]_vars
    /\ [][\A e \in EngineIds : \A res \in GetMessageResults :
            (GetMessageReturn(e, res) /\ ~eng[e].running) =>
                eng'[e].pc = "returned"]_vars
    /\ [](\A e \in EngineIds :
            (eng[e].kind \in LoopKinds /\ eng[e].running /\ eng[e].pc = "getmsg") =>
                \A res \in GetMessageResults : ENABLED GetMessageReturn(e, res))

\* After a retrieval that returned zero or failed the engine is still
\* Running with its hook installed, and an event typed since then was
\* handled by the callback.
C28_Witness ==
    \E e \in EngineIds :
        /\ Retried(e)
        /\ eng[e].running
        /\ eng[e].pc = "getmsg"
        /\ hooks[e] = "installed"
        /\ Len(published[e]) = MaxEvents

\* ---- the engine of keyboard_hook.ts and the catch-all kind
\* C29: the engine of keyboard_hook.ts, on the consumer's thread or hosted
\* by worker.ts, dispatches nothing for a processable invocation whose
\* message identifier is none of the four: nothing is published, posted or
\* given to listeners for it, the invocation is forwarded all the same, and
\* no event of kind 'key' exists, so the 'key' relay listener of worker.ts
\* never posts and no 'key' listener ever runs.
C29_DirectDropsUnmapped ==
    \A e \in EngineIds :
        eng[e].kind \in {"direct", "module"} =>
            /\ \A k \in DOMAIN osEvents :
                  HandledUnmapped(e, k) =>
                      /\ \A i \in DOMAIN published[e] : published[e][i].detail.time # k
                      /\ \A i \in DOMAIN port[e] : port[e][i].detail.time # k
                      /\ ~DispatchedFrom(e, k)
                      /\ (eng[e].cursor = k /\ eng[e].pc = "getmsg") =>
                             eng[e].last = Forwarded(osEvents[k])
            /\ \A i \in DOMAIN published[e] : published[e][i].type \in FourKinds
            /\ \A i \in DOMAIN port[e] : port[e][i].type # "key"
            /\ \A i \in DOMAIN delivered[eng[e].owner] :
                  \A l \in delivered[eng[e].owner][i].to : l.kind # "key"

\* The engine hosted by worker.ts was handed an unmapped identifier and then
\* a key-down: the first was forwarded and left no trace, the second reached
\* the keydown listeners, and the 'key' listener the consumer had registered
\* was not run.
C29_Witness ==
    \E e \in EngineIds :
        /\ eng[e].kind = "module"
        /\ Len(osEvents) = 2
        /\ HandledUnmapped(e, 1)
        /\ eng[e].pc = "getmsg"
        /\ eng[e].cursor = 2
        /\ Len(published[e]) = 1
        /\ Listener("key", "late") \in listeners[eng[e].owner]
        /\ Len(delivered[eng[e].owner]) = 1
        /\ delivered[eng[e].owner][1].type = "keydown"
        /\ delivered[eng[e].owner][1].detail.time = 2

\* ---- the decoded flags
\* The bits set in a value below twice `b`, b a power of two.
RECURSIVE BitsIn(_, _)
BitsIn(value, b) ==
    IF b = 0 THEN {}
    ELSE IF value >= b THEN {b} \cup BitsIn(value - b, b \div 2)
    ELSE BitsIn(value, b \div 2)

\* C30: whatever the flags field of the record is, the five booleans of the
\* event the flag-decoding revision publishes are the tests of bit 0x01
\* (extended), 0x02 (lowerIlInjected), 0x10 (injected), 0x20 (altDown) and
\* 0x80 (up) of that field, each whatever the other bits are.
C30_FlagsAreBitTests ==
    \A e \in EngineIds : \A i \in DOMAIN published[e] :
        eng[e].kind = "flags" =>
            LET S == BitsIn(RawOf(published[e][i]).struct.flags, 1073741824)
            IN published[e][i].detail.flags =
                   [extended |-> 1 \in S, lowerIlInjected |-> 2 \in S,
                    injected |-> 16 \in S, altDown |-> 32 \in S, up |-> 128 \in S]

\* An event whose flags have the injected bit and every bit that is not
\* tested set, and none of the other four, was published as injected only.
C30_Witness ==
    \E e \in EngineIds :
        /\ eng[e].kind = "flags"
        /\ Len(published[e]) = 1
        /\ RawOf(published[e][1]).struct.flags = SumOf({4, 8, 16, 64, 256, 1073741824})
        /\ published[e][1].detail.flags =
               [extended |-> FALSE, lowerIlInjected |-> FALSE, injected |-> TRUE,
                altDown |-> FALSE, up |-> FALSE]
        /\ Len(delivered[eng[e].owner]) = 1

\* ---- the library handle
\* The functions an engine calls through its user32 library handle.
NativeFunctions ==
    {"SetWindowsHookExW", "UnhookWindowsHookEx", "CallNextHookEx", "GetMessageW",
     "PostQuitMessage"}

\* C31: no engine object ever calls SetWindowsHookExW, UnhookWindowsHookEx,
\* CallNextHookEx, GetMessageW or PostQuitMessage through its user32 handle
\* after user32.close() has run on that handle.
C31_NoCallThroughClosedLibrary ==
    \A e \in EngineIds : \A c \in calls[e] :
        c.fn \in NativeFunctions => c.lib # "closed"

\* The engine of keyboard_hook_with_worker.ts never closes the library it
\* calls through, and every engine opens the library before its first call.
C31_WorkerEngineCallsThroughOpenLibrary ==
    /\ \A e \in EngineIds : \A c \in calls[e] :
          c.fn \in NativeFunctions => c.lib \in {"open", "closed"}
    /\ \A e \in EngineIds : \A c \in calls[e] :
          (eng[e].kind = "inline" /\ c.fn \in NativeFunctions) => c.lib = "open"

\* An engine of the worker revision has forwarded a key through the library.
C31_WorkerEngineWitness ==
    \E e \in EngineIds :
        /\ eng[e].kind = "inline"
        /\ Call("CallNextHookEx", "callback", "open", "-") \in calls[e]

\* -------------------------------------- engine built by its constructor
\* KeyboardHook.ts: the constructor makes the callback, installs the hook and
\* makes one call of GetMessageW on the consumer's thread; close() is the only
\* other operation. Kind "ctor"; its callback is the one of the one-shot
\* worker script, so Decoded takes the same branch for it.

\* What the FFI binding does with a pointer argument that is undefined: it
\* refuses the call with a TypeError, or passes a null pointer.
UnsetHandleOutcomes == {"rejected", "null"}

\* close(): PostQuitMessage(0), UnhookWindowsHookEx(this.hookHandle),
\* callback.close(), user32.close(), with no guard and with the handle field
\* as it is: unset before the install has succeeded, and never cleared.
CloseCalls(r, ctx, hk) ==
    {Call("PostQuitMessage", ctx, r.user32, "-"),
     Call("UnhookWindowsHookEx", ctx, r.user32,
          IF r.hookHandle = 0 THEN "unset" ELSE hk[r.hookHandle]),
     Call("callback.close", ctx, r.user32, "-"),
     Call("user32.close", ctx, r.user32, "-")}

ClosedEngine(r) == [r EXCEPT !.quit = TRUE, !.callback = "closed", !.user32 = "closed"]

\* new KeyboardHook(): a refused install runs this.close() and throws; a
\* successful one stores the handle and blocks in GetMessageW.
ConstructorRun(e) ==
    /\ eng[e].kind = "ctor"
    /\ eng[e].pc = "boot"
    /\ \E ok \in BOOLEAN, out \in UnsetHandleOutcomes :
         IF ok
         THEN /\ out = "null"
              /\ eng' = [eng EXCEPT ![e].callback = "open", ![e].hookHandle = e,
                                    ![e].pc = "getmsg", ![e].cursor = Len(osEvents)]
              /\ hooks' = [hooks EXCEPT ![e] = "installed"]
              /\ calls' = [calls EXCEPT ![e] = @ \cup
                    {Call("SetWindowsHookExW", "start", "open", "ok"),
                     Call("GetMessageW", "start", "open", "installed")}]
              /\ reported' = reported
         ELSE /\ hooks' = hooks
              /\ IF out = "rejected"
                 THEN /\ eng' = [eng EXCEPT ![e].callback = "open", ![e].quit = TRUE,
                                            ![e].pc = "threw"]
                      /\ calls' = [calls EXCEPT ![e] = @ \cup
                            {Call("SetWindowsHookExW", "start", "open", "null"),
                             Call("PostQuitMessage", "start", "open", "-"),
                             Call("UnhookWindowsHookEx", "start", "open", "unset")}]
                      /\ reported' = [reported EXCEPT ![eng[e].owner] = @ \cup {"TypeError"}]
                 ELSE /\ eng' = [eng EXCEPT ![e] = [ClosedEngine(@) EXCEPT !.pc = "threw"]]
                      /\ calls' = [calls EXCEPT ![e] = @ \cup
                            {Call("SetWindowsHookExW", "start", "open", "null")}
                            \cup CloseCalls(eng[e], "start", hooks)]
                      /\ reported' = [reported EXCEPT ![eng[e].owner] =
                                         @ \cup {"InstallError"}]
    /\ UNCHANGED <<variant, worker, nextId, port, osEvents, delivered,
                   published, noopCalls, listeners>>

\* The OS invokes the hook callback inside the constructor's GetMessageW: the
\* callback decodes, classifies and dispatches the event on the object under
\* construction.
ConstructorHookEnter(e) ==
    /\ eng[e].pc = "getmsg"
    /\ eng[e].kind = "ctor"
    /\ hooks[e] = "installed"
    /\ eng[e].cursor < Len(osEvents)
    /\ LET inv == osEvents[eng[e].cursor + 1]
           msg == Decoded("ctor", inv)
       IN /\ eng' = [eng EXCEPT ![e].pc = "cb_fwd", ![e].cursor = @ + 1, ![e].cur = inv]
          /\ IF msg # NoInv
             THEN /\ published' = [published EXCEPT ![e] = Append(@, msg)]
                  /\ delivered' = [delivered EXCEPT ![eng[e].owner] =
                        Append(@, Dispatch(eng[e].owner, msg.type, msg.detail, e, "callback"))]
             ELSE UNCHANGED <<published, delivered>>
    /\ UNCHANGED <<variant, worker, nextId, port, osEvents, hooks, calls,
                   noopCalls, reported, listeners>>

\* GetMessageW returns: the constructor returns the object to the consumer
\* and nothing retrieves messages on this thread any more.
ConstructorReturn(e) ==
    /\ eng[e].pc = "getmsg"
    /\ eng[e].kind = "ctor"
    /\ eng' = [eng EXCEPT ![e].pc = "returned"]
    /\ UNCHANGED <<variant, worker, nextId, port, osEvents, hooks, delivered,
                   published, calls, noopCalls, reported, listeners>>

\* close() called by the consumer on an object its constructor returned, any
\* number of times.
Close(e) ==
    /\ ~Crashed
    /\ eng[e].kind = "ctor"
    /\ eng[e].pc = "returned"
    /\ \E out \in CallOutcomes(eng[e].user32) :
         IF out = "ok"
         THEN /\ eng' = [eng EXCEPT ![e] = ClosedEngine(@)]
              /\ hooks' = HooksAfterStop(eng[e], hooks)
              /\ calls' = [calls EXCEPT ![e] = @ \cup CloseCalls(eng[e], "top", hooks)]
         ELSE /\ eng' = [eng EXCEPT ![e].pc = "crashed"]
              /\ hooks' = hooks
              /\ calls' = [calls EXCEPT ![e] = @ \cup
                    {Call("PostQuitMessage", "top", eng[e].user32, "-")}]
    /\ UNCHANGED <<variant, worker, nextId, port, osEvents, delivered,
                   published, noopCalls, reported, listeners>>

\* The consumer constructs another object once the thread is free again.
ConstructorNew ==
    /\ ~Crashed
    /\ nextId < MaxWorkers
    /\ eng[nextId].pc \in {"returned", "threw"}
    /\ nextId' = nextId + 1
    /\ eng' = [eng EXCEPT ![nextId + 1] = NewEngine("ctor", "a", "boot")]
    /\ UNCHANGED <<variant, worker, port, osEvents, hooks, delivered,
                   published, calls, noopCalls, reported, listeners>>

\* The consumer's script is at its first `new KeyboardHook()`; no listener
\* can be registered on an object before its constructor has returned.
InitCtor ==
    /\ variant = "ctor"
    /\ worker = [f \in Instances |-> 0]
    /\ nextId = 1
    /\ eng = [e \in EngineIds |-> IF e = 1 THEN NewEngine("ctor", "a", "boot") ELSE NoEngine]
    /\ port = [e \in EngineIds |-> <<>>]
    /\ osEvents = <<>>
    /\ hooks = [e \in EngineIds |-> "none"]
    /\ delivered = [f \in Instances |-> <<>>]
    /\ published = [e \in EngineIds |-> <<>>]
    /\ calls = [e \in EngineIds |-> {}]
    /\ noopCalls = {}
    /\ reported = [f \in Instances |-> {}]
    /\ listeners = [f \in Instances |-> {}]

NextCtor ==
    \/ \E raw \in RawInputs : Inject(raw)
    \/ \E e \in EngineIds : ConstructorRun(e)
    \/ \E e \in EngineIds : ConstructorHookEnter(e)
    \/ \E e \in EngineIds : HookForward(e)
    \/ \E e \in EngineIds : ConstructorReturn(e)
    \/ \E e \in EngineIds : Close(e)
    \/ ConstructorNew

SpecCtor == InitCtor /\ [][NextCtor]_vars

\* ---- the handle given to UnhookWindowsHookEx
\* The states of a handle an engine may pass to UnhookWindowsHookEx: one its
\* own SetWindowsHookExW returned and it has not unhooked yet, whether the
\* hook is still installed or the OS has dropped it in the meantime.
OwnHandleStates == {"installed", "expired"}

\* C32: every UnhookWindowsHookEx call of an engine object is given a handle
\* that a successful SetWindowsHookExW returned to that object and that the
\* object has not unhooked before: never an unset handle, never the same
\* handle twice.
C32_UnhookOnlyOwnLiveHandle ==
    \A e \in EngineIds : \A c \in calls[e] :
        c.fn = "UnhookWindowsHookEx" => c.arg \in OwnHandleStates

\* stop() of keyboard_hook.ts tests running and the handle and clears both:
\* its UnhookWindowsHookEx calls are given a live handle of the same object,
\* and the engines in workers make no such call.
C32_GuardedStopUnhooksOwnHandle ==
    /\ \A e \in EngineIds : \A c \in calls[e] :
          c.fn = "UnhookWindowsHookEx" =>
              /\ eng[e].kind = "direct"
              /\ c.arg \in OwnHandleStates
              /\ Call("SetWindowsHookExW", "start", "open", "ok") \in calls[e]
    /\ [][\A e \in EngineIds :
            (\E c \in calls'[e] \ calls[e] : c.fn = "UnhookWindowsHookEx") =>
                /\ eng[e].hookHandle = e
                /\ hooks[e] = "installed"
                /\ eng'[e].hookHandle = 0
                /\ hooks'[e] # "installed"]_vars

\* A stop() of keyboard_hook.ts has unhooked the installed hook.
C32_GuardedStopWitness ==
    \E e \in EngineIds :
        /\ eng[e].kind = "direct"
        /\ Call("UnhookWindowsHookEx", "callback", "open", "installed") \in calls[e]
        /\ hooks[e] = "removed"

\* ---- the worker's running flag
\* The install of the engine in worker e has succeeded and the worker lives.
InstalledWorker(e) ==
    /\ eng[e].kind = "inline"
    /\ eng[e].pc \notin {"none", "boot", "threw", "terminated"}

\* C33: in the worker revision, once the worker's install has succeeded its
\* running flag stays true while the worker lives: no stop() of the engine
\* has run (no PostQuitMessage, no UnhookWindowsHookEx), the thread stays in
\* the message loop, and the hook leaves the installed state only in the step
\* in which the facade terminates the worker.
C33_WorkerRunsUntilTerminated ==
    /\ [](\A e \in EngineIds :
            InstalledWorker(e) =>
                /\ eng[e].running
                /\ eng[e].pc \in {"getmsg", "cb_fwd"}
                /\ hooks[e] = "installed"
                /\ \A c \in calls[e] :
                      c.fn \notin {"PostQuitMessage", "UnhookWindowsHookEx", "user32.close"})
    /\ [][\A e \in EngineIds :
            (InstalledWorker(e) /\ (~eng'[e].running \/ hooks'[e] # "installed")) =>
                /\ eng'[e].pc = "terminated"
                /\ worker[eng[e].owner] = e
                /\ worker'[eng[e].owner] = 0
                /\ hooks'[e] = "abandoned"]_vars

\* A worker whose loop has gone round after a key was handled is terminated
\* by the facade's stop(), its hook never unhooked.
C33_Witness ==
    \E e \in EngineIds :
        /\ eng[e].kind = "inline"
        /\ eng[e].pc = "terminated"
        /\ hooks[e] = "abandoned"
        /\ Len(published[e]) > 0
        /\ Call("CallNextHookEx", "callback", "open", "-") \in calls[e]
        /\ worker[eng[e].owner] = 0

\* ---- the worker an event comes from
\* C34: in the worker revision every dispatch to the listeners of a facade
\* is of a message posted by the worker its worker field refers to at that
\* moment, a worker that has not been terminated; after stop() and start()
\* nothing the earlier worker posted is dispatched any more.
C34_DispatchFromCurrentWorker ==
    [][\A f \in Facades :
         (variant = "withWorker" /\ Len(delivered'[f]) > Len(delivered[f])) =>
             /\ Len(delivered'[f]) = Len(delivered[f]) + 1
             /\ worker[f] # 0
             /\ delivered'[f][Len(delivered'[f])].from = worker[f]
             /\ eng[worker[f]].pc # "terminated"
             /\ \A e \in EngineIds :
                   eng[e].pc = "terminated" =>
                       DeliveredFrom(f, e) = SelectSeq(delivered'[f], LAMBDA d : d.from = e)]_vars

\* After stop() and start() the second worker's event has been dispatched;
\* the first worker had handled a key that never was.
C34_Witness ==
    \E f \in Facades : \E e1, e2 \in EngineIds :
        /\ variant = "withWorker"
        /\ e1 # e2
        /\ worker[f] = e2
        /\ eng[e1].pc = "terminated"
        /\ eng[e1].owner = f
        /\ Len(published[e1]) > Len(DeliveredFrom(f, e1))
        /\ Len(DeliveredFrom(f, e2)) > 0

\* ---- where stop() runs
\* C35: in the engine of keyboard_hook.ts a start() whose install succeeded
\* has not returned while running is true, so every stop() that takes effect
\* runs nested in a hook callback invocation made from the loop's
\* GetMessageW and none after start() has returned.
C35_StopOnlyInsideCallback ==
    /\ [](\A e \in EngineIds :
            eng[e].kind = "direct" =>
                /\ (eng[e].running => eng[e].pc \in {"getmsg", "cb_fwd", "crashed"})
                /\ \A c \in calls[e] :
                      c.fn \in {"PostQuitMessage", "UnhookWindowsHookEx", "user32.close"}
                          => c.ctx = "callback")
    /\ [][\A e \in EngineIds :
            (eng[e].kind = "direct" /\ eng[e].running /\ ~eng'[e].running) =>
                /\ eng[e].pc = "getmsg"
                /\ eng'[e].pc = "cb_fwd"
                /\ Len(delivered'[eng[e].owner]) = Len(delivered[eng[e].owner]) + 1
                /\ Call("PostQuitMessage", "callback", "open", "-") \in calls'[e]]_vars

\* A listener's stop() has taken effect inside the callback and start() has
\* returned after it; a later stop() by the consumer found nothing to do.
C35_Witness ==
    \E e \in EngineIds :
        /\ eng[e].kind = "direct"
        /\ eng[e].pc = "returned"
        /\ ~eng[e].running
        /\ Call("PostQuitMessage", "callback", "open", "-") \in calls[e]
        /\ "stopStopped" \in noopCalls

\* ---- the hook handle field
\* C36: in the engine of keyboard_hook.ts a set hook handle implies that
\* running is true and a callback object exists; the handle is assigned only
\* by a start() whose install succeeded and is cleared by the stop() that
\* sets running false, in the same step.
C36_HandleImpliesRunning ==
    /\ [](\A e \in EngineIds :
            (eng[e].kind = "direct" /\ eng[e].hookHandle # 0) =>
                /\ eng[e].running
                /\ eng[e].callback = "open")
    /\ [][\A e \in EngineIds :
            eng[e].kind = "direct" =>
                /\ (eng[e].hookHandle = 0 /\ eng'[e].hookHandle # 0) =>
                       /\ eng[e].pc \in {"idle", "returned", "threw"}
                       /\ eng'[e].pc = "getmsg"
                       /\ hooks'[e] = "installed"
                       /\ Call("SetWindowsHookExW", "start", eng[e].user32, "ok") \in calls'[e]
                /\ (eng[e].hookHandle # 0 /\ eng'[e].hookHandle = 0) =>
                       eng[e].running /\ ~eng'[e].running
                /\ (eng[e].hookHandle # 0 /\ eng[e].running /\ ~eng'[e].running) =>
                       eng'[e].hookHandle = 0]_vars

\* An engine that was started, stopped by a listener (handle cleared) and
\* started again holds a handle once more.
C36_Witness ==
    \E e \in EngineIds :
        /\ eng[e].kind = "direct"
        /\ eng[e].hookHandle # 0
        /\ eng[e].running
        /\ \E c \in calls[e] : c.fn = "UnhookWindowsHookEx"

====
